---------------------------- MODULE Spec2Model ----------------------------
(***************************************************************************)
(* Verification model of the ORS TypeScript client:                        *)
(*   - RateLimiter (src/src/rateLimiter.ts, lines 1-86), a token bucket    *)
(*     with a queue and a timer, under specification SpecRL;               *)
(*   - planDeliveryTours, the heuristic tour planner (same file, lines     *)
(*     88-934) with the route proximity evaluator it calls, under          *)
(*     specification Spec.                                                 *)
(*                                                                         *)
(* Numbers.  Kilometres, kilograms, days and minutes are integers.  All    *)
(* coordinates of a run lie on one meridian (longitude 0) and latitude is  *)
(* counted in grid steps of KmPerStep kilometres, so that the haversine    *)
(* distance of two points is exactly KmPerStep * |lat1 - lat2| and the     *)
(* cross-track distance of a point to a segment of the meridian is 0.      *)
(* Every quantity the code compares with its 1e-6 tolerance is a multiple  *)
(* of a unit far above 1e-6, so "a > b + EPSILON" is "a > b" here.         *)
(***************************************************************************)
EXTENDS Integers, Sequences, FiniteSets, TLC

VARIABLES
    \* ---- RateLimiter ----
    now,                \* Date.now()
    limiter,            \* the RateLimiter object: capacity, intervalMs, tokens, lastRefill, queue, timer
    tasks,              \* one record per schedule() call, in call order
    \* ---- planDeliveryTours ----
    request,            \* TourPlanningRequest
    options,            \* TourPlanningOptions
    pc,                 \* position of the async function
    normalizedClients,  \* StandardizedClient[]
    matrix,             \* MatrixData
    seeds,              \* selectSeeds result (matrix indices)
    isoGeometries,      \* Record<seed.id, geometry | undefined>
    remaining,          \* Map<id, client>
    tours,              \* PlannedTour[]
    context,            \* BuildTourContext of the tour being built
    globalWarnings,     \* string[]
    cursor,             \* loop positions: next isochrone seed, next seed
    ors,                \* the ORS collaborator: calls issued and how they ended
    result,             \* the promise returned by planDeliveryTours
    \* ---- planDeliveryToursVRP ----
    vrp,                \* the run: position, request, payload sent, calls, answer, result
    \* ---- geocodeTownZipLookup ----
    lookup,             \* the lookup: position, query, attempts, requests issued, result
    \* ---- ORS client ----
    orsClient,          \* the ORS client: has it a rate limiter, number of calls, last call
    \* ---- route proximity helpers ----
    proximityCall       \* the inputs of a call, which helper was called, what it gave

rlVars == <<now, limiter, tasks>>
planVars == <<request, options, pc, normalizedClients, matrix, seeds, isoGeometries,
              remaining, tours, context, globalWarnings, cursor, ors, result>>
toolVars == <<vrp, lookup, orsClient, proximityCall>>
notVrpVars == <<rlVars, planVars, lookup, orsClient, proximityCall>>
notLookupVars == <<rlVars, planVars, vrp, orsClient, proximityCall>>
vars == <<now, limiter, tasks, request, options, pc, normalizedClients, matrix, seeds,
          isoGeometries, remaining, tours, context, globalWarnings, cursor, ors, result,
          vrp, lookup, orsClient, proximityCall>>

\* ------------------------------------------------------------------------
\* Generic helpers
\* ------------------------------------------------------------------------
Min(a, b) == IF a < b THEN a ELSE b
Max(a, b) == IF a > b THEN a ELSE b
Abs(a) == IF a < 0 THEN -a ELSE a
Range(s) == {s[i] : i \in 1..Len(s)}

RECURSIVE SeqSum(_)
SeqSum(s) == IF s = <<>> THEN 0 ELSE Head(s) + SeqSum(Tail(s))

\* s with x inserted so that it becomes element number i (1-based): Array.splice(i-1, 0, x)
InsertAt(s, i, x) == SubSeq(s, 1, i - 1) \o <<x>> \o SubSeq(s, i, Len(s))


\* ------------------------------------------------------------------------
\* RateLimiter
\* ------------------------------------------------------------------------
MaxTasks == 3           \* schedule() calls in one behaviour
MaxTime == 6            \* last clock value
CapacityValues == {1, 2}        \* options.requests
IntervalValues == {2, 3}        \* options.intervalMs
TaskOutcomes == {"resolved", "rejected"}

NoTimer == [set |-> FALSE, due |-> 0]

\* constructor
NewRateLimiter(requests, intervalMs, t) ==
    [capacity |-> requests, intervalMs |-> intervalMs, tokens |-> requests,
     lastRefill |-> t, queue |-> <<>>, timer |-> NoTimer]

\* refillTokens()
refillTokens(l, t) ==
    IF l.tokens >= l.capacity
    THEN [l EXCEPT !.lastRefill = t]
    ELSE LET elapsed == t - l.lastRefill
             intervals == elapsed \div l.intervalMs
         IN  IF elapsed >= l.intervalMs
             THEN [l EXCEPT !.tokens = Min(l.capacity, l.tokens + intervals * l.capacity),
                            !.lastRefill = l.lastRefill + intervals * l.intervalMs]
             ELSE l

\* ensureProcessingScheduled()
ensureProcessingScheduled(l, t) ==
    IF l.timer.set
    THEN l
    ELSE LET delay == Max(0, l.intervalMs - (t - l.lastRefill))
         IN  [l EXCEPT !.timer = [set |-> TRUE, due |-> t + delay]]

\* Number of tasks the while loop of processQueue starts.
processQueueStarts(l) == Min(l.tokens, Len(l.queue))

\* A processQueue that starts the tasks and leaves the tokens alone.
processQueueWithoutPaying(l, t) ==
    LET r == refillTokens(l, t)
        d == [r EXCEPT !.queue = SubSeq(r.queue, processQueueStarts(r) + 1, Len(r.queue))]
    IN  IF Len(d.queue) > 0 THEN ensureProcessingScheduled(d, t) ELSE d

\* A processQueue that sets no timer for the tasks it leaves in the queue.
processQueueWithoutRearming(l, t) ==
    LET r == refillTokens(l, t)
        k == processQueueStarts(r)
    IN  [r EXCEPT !.tokens = r.tokens - k,
                  !.queue = SubSeq(r.queue, k + 1, Len(r.queue))]

\* processQueue(), the limiter after it
processQueue(l, t) ==
    LET r == refillTokens(l, t)
        k == processQueueStarts(r)
        d == [r EXCEPT !.tokens = r.tokens - k,
                       !.queue = SubSeq(r.queue, k + 1, Len(r.queue))]
    IN  IF Len(d.queue) > 0 THEN ensureProcessingScheduled(d, t) ELSE d

\* A test that runs the task at once whenever nothing is queued, tokens or not.
scheduleRunsNowIgnoringTokens(r) == Len(r.queue) = 0

\* A test that runs the task at once whenever a token is there, queue or not.
scheduleRunsNowIgnoringQueue(r) == r.tokens > 0

\* Whether schedule() runs the task at once (after its refill).
scheduleRunsNow(r) == r.tokens > 0 /\ Len(r.queue) = 0

NewTask(id, outcome, r, t, runsNow) ==
    [id |-> id, outcome |-> outcome,
     status |-> IF runsNow THEN "running" ELSE "queued",
     calledAt |-> t,
     tokensAtCall |-> r.tokens,          \* tokens seen by schedule() after its refill
     lastRefillAtCall |-> r.lastRefill,
     startedAt |-> IF runsNow THEN t ELSE -1,
     promise |-> "pending"]

\* schedule(fn)
RLSchedule ==
    /\ Len(tasks) < MaxTasks
    /\ \E outcome \in TaskOutcomes :
         LET r == refillTokens(limiter, now)
             id == Len(tasks) + 1
         IN  IF scheduleRunsNow(r)
             THEN /\ limiter' = [r EXCEPT !.tokens = r.tokens - 1]
                  /\ tasks' = Append(tasks, NewTask(id, outcome, r, now, TRUE))
             ELSE /\ limiter' = ensureProcessingScheduled(
                                    [r EXCEPT !.queue = Append(r.queue, id)], now)
                  /\ tasks' = Append(tasks, NewTask(id, outcome, r, now, FALSE))
    /\ UNCHANGED <<now>>
    /\ UNCHANGED <<planVars, toolVars>>

\* The setTimeout callback: timer = undefined; processQueue()
RLTimerFires ==
    /\ limiter.timer.set
    /\ now >= limiter.timer.due
    /\ LET l == [limiter EXCEPT !.timer = NoTimer]
           r == refillTokens(l, now)
           k == processQueueStarts(r)
           started == {r.queue[i] : i \in 1..k}
       IN  /\ limiter' = processQueue(l, now)
           /\ tasks' = [i \in 1..Len(tasks) |->
                          IF i \in started
                          THEN [tasks[i] EXCEPT !.status = "running", !.startedAt = now]
                          ELSE tasks[i]]
    /\ UNCHANGED <<now>>
    /\ UNCHANGED <<planVars, toolVars>>

\* The promise of a started task settles; schedule()'s promise settles with it.
RLTaskSettles ==
    /\ \E i \in 1..Len(tasks) :
         /\ tasks[i].status = "running"
         /\ tasks' = [tasks EXCEPT ![i].status = "settled", ![i].promise = tasks[i].outcome]
    /\ UNCHANGED <<now, limiter>>
    /\ UNCHANGED <<planVars, toolVars>>

\* The clock advances by one millisecond.
RLTick ==
    /\ now < MaxTime
    /\ now' = now + 1
    /\ UNCHANGED <<limiter, tasks>>
    /\ UNCHANGED <<planVars, toolVars>>


\* ------------------------------------------------------------------------
\* planDeliveryTours: numbers, inputs
\* ------------------------------------------------------------------------
MaxClients == 3         \* request.clients.length is at most this
KmPerStep == 22         \* kilometres of one latitude grid step
NaN == -1000000         \* a number that is not finite (NaN, Infinity as an input)
Infinity == 1000000     \* Number.POSITIVE_INFINITY
Undefined == NaN - 1    \* a missing number (undefined)
MetresPerKm == 1000     \* 1 / KM_PER_M
SEC_PER_MIN == 60
RefDay == 10            \* options.referenceDate, in days

IsFiniteNumber(x) == x # NaN /\ x # Infinity /\ x # Undefined
IsNumber(x) == x # Undefined          \* typeof x === "number"

NoId == "<undefined>"   \* client.id left out
ClientLabels == <<"client_1", "client_2", "client_3", "client_4", "client_5", "client_6">>

NoGeometry == [type |-> "undefined"]
IsTruthy(g) == g.type \notin {"undefined", "null"}
\* typeof g === "object"
IsObjectType(g) == g.type \notin {"undefined", "string"}

\* DEFAULT_LIMITS of constants.ts, the part the planner reads
DEFAULT_LIMITS ==
    [matrixMaxLocationsProduct |-> 3500,
     directionsMaxWaypoints |-> 50,
     isochronesMaxLocations |-> 5,
     maxRangeTimeHoursDriving |-> 1]

DEFAULT_SCORING_WEIGHTS == [age |-> 50, distance |-> 25, cluster |-> 15, urgent |-> 10]   \* percent

DEFAULT_OPTIONS ==
    [profile |-> "driving-hgv",
     isoRangeMinutes |-> 60,
     maxIsoRequests |-> 5,
     clusterRadiusKm |-> 35,
     neighborRadiusKm |-> 25,
     alongRouteToleranceKm |-> 8,
     averageSpeedKmh |-> 55,
     maxCandidatesPerTour |-> 40,
     limits |-> [matrixMaxCells |-> Undefined, directionsMaxWaypoints |-> Undefined,
                 isochroneMaxLocations |-> Undefined]]

\* The option bags of the model's callers: the defaults, and a few knobs turned at a time.
OptionSets ==
    { DEFAULT_OPTIONS,
      [DEFAULT_OPTIONS EXCEPT !.isoRangeMinutes = 0],
      [DEFAULT_OPTIONS EXCEPT !.profile = "wheelchair"],
      [DEFAULT_OPTIONS EXCEPT !.limits.matrixMaxCells = 8, !.isoRangeMinutes = 0],
      [DEFAULT_OPTIONS EXCEPT !.limits.directionsMaxWaypoints = 3, !.isoRangeMinutes = 0],
      [DEFAULT_OPTIONS EXCEPT !.maxCandidatesPerTour = 2, !.maxIsoRequests = 1],
      [DEFAULT_OPTIONS EXCEPT !.maxCandidatesPerTour = 1, !.isoRangeMinutes = 0],
      [DEFAULT_OPTIONS EXCEPT !.neighborRadiusKm = 40, !.limits.isochroneMaxLocations = 1,
                              !.limits.directionsMaxWaypoints = 4] }

\* The clients a request is made of.  Latitudes are grid steps north of the depot.
ClientCatalog ==
    { [id |-> NoId, name |-> "near", coordinate |-> <<0, 1>>, weightKg |-> 1, orderDate |-> 8, urgent |-> FALSE],
      [id |-> NoId, name |-> "mid", coordinate |-> <<0, 2>>, weightKg |-> 1, orderDate |-> 9, urgent |-> FALSE],
      [id |-> "far", name |-> "far", coordinate |-> <<0, 3>>, weightKg |-> 1, orderDate |-> 11, urgent |-> TRUE],
      [id |-> NoId, name |-> "heavy", coordinate |-> <<0, 2>>, weightKg |-> 3, orderDate |-> 7, urgent |-> FALSE],
      [id |-> "zero", name |-> "zero", coordinate |-> <<0, 1>>, weightKg |-> 0, orderDate |-> 9, urgent |-> FALSE],
      [id |-> "client_1", name |-> "dup", coordinate |-> <<0, 2>>, weightKg |-> 1, orderDate |-> 9, urgent |-> FALSE],
      [id |-> NoId, name |-> "nopair", coordinate |-> <<0>>, weightKg |-> 1, orderDate |-> 9, urgent |-> FALSE],
      [id |-> NoId, name |-> "nolat", coordinate |-> <<0, NaN>>, weightKg |-> 1, orderDate |-> 9, urgent |-> FALSE],
      [id |-> NoId, name |-> "nodate", coordinate |-> <<0, 1>>, weightKg |-> 1, orderDate |-> NaN, urgent |-> FALSE] }

RECURSIVE SeqsUpTo(_, _)
SeqsUpTo(S, n) ==
    IF n = 0 THEN {<<>>}
    ELSE LET shorter == SeqsUpTo(S, n - 1)
         IN  shorter \cup {Append(s, x) : s \in {t \in shorter : Len(t) = n - 1}, x \in S}

\* truckCapacityKg, desiredTourCount (in halves, so that 3 is 1.5) and depot of the requests
RequestShapes ==
    { [truckCapacityKg |-> 2, desiredTourCountHalves |-> 2, depot |-> <<0, 0>>],
      [truckCapacityKg |-> 2, desiredTourCountHalves |-> 4, depot |-> <<0, 0>>],
      [truckCapacityKg |-> 0, desiredTourCountHalves |-> 2, depot |-> <<0, 0>>],
      [truckCapacityKg |-> NaN, desiredTourCountHalves |-> 2, depot |-> <<0, 0>>],
      [truckCapacityKg |-> 2, desiredTourCountHalves |-> 0, depot |-> <<0, 0>>],
      [truckCapacityKg |-> 2, desiredTourCountHalves |-> 3, depot |-> <<0, 0>>],
      [truckCapacityKg |-> 2, desiredTourCountHalves |-> 2, depot |-> <<0>>],
      [truckCapacityKg |-> 2, desiredTourCountHalves |-> 2, depot |-> <<NaN, 0>>] }

Requests ==
    { [clients |-> cs, truckCapacityKg |-> sh.truckCapacityKg,
       desiredTourCountHalves |-> sh.desiredTourCountHalves, depot |-> sh.depot] :
         cs \in SeqsUpTo(ClientCatalog, MaxClients), sh \in RequestShapes }

desiredTourCount(req) == req.desiredTourCountHalves \div 2

\* ------------------------------------------------------------------------
\* Spherical geometry kernel on the meridian
\* ------------------------------------------------------------------------
\* haversineDistanceKm(a, b) for two points of equal longitude: R * |dLat|
haversineDistanceKm(a, b) == KmPerStep * Abs(a[2] - b[2])

\* (distanceKm / averageSpeedKmh) * 60
durationFromDistance(distanceKm, averageSpeedKmh) == (distanceKm * 60) \div averageSpeedKmh

\* ------------------------------------------------------------------------
\* Client normalizer
\* ------------------------------------------------------------------------
\* normalizeCoordinate: the error it throws, "" when it returns
normalizeCoordinateError(coordinate) ==
    IF Len(coordinate) < 2 THEN "must be a [lon, lat] pair"
    ELSE IF ~IsFiniteNumber(coordinate[1]) \/ ~IsFiniteNumber(coordinate[2])
         THEN "must contain finite coordinates"
         ELSE ""

normalizeCoordinate(coordinate) == <<coordinate[1], coordinate[2]>>

resolveId(client, index) == IF client.id = NoId THEN ClientLabels[index + 1] ELSE client.id

\* normalizeClient: the error it throws, "" when it returns
normalizeClientError(client, index) ==
    IF normalizeCoordinateError(client.coordinate) # ""
    THEN normalizeCoordinateError(client.coordinate)
    ELSE IF client.orderDate = NaN THEN "Invalid orderDate" ELSE ""

\* normalizeClient, index counted from 0 as in Array.map
normalizeClient(client, index, depot, referenceDate, averageSpeedKmh) ==
    LET coordinate == normalizeCoordinate(client.coordinate)
        distanceFromDepotKm == haversineDistanceKm(depot, coordinate)
    IN  [id |-> resolveId(client, index),
         name |-> client.name,
         coordinate |-> coordinate,
         weightKg |-> client.weightKg,
         orderDate |-> client.orderDate,
         urgent |-> client.urgent,
         ageDays |-> Max(0, referenceDate - client.orderDate),
         distanceFromDepotKm |-> distanceFromDepotKm,
         durationFromDepotMin |-> durationFromDistance(distanceFromDepotKm, averageSpeedKmh),
         neighborCount |-> 0,
         score |-> 0,
         seed |-> FALSE,
         matrixIndex |-> index + 1]

\* A validation that lets a non-positive truck capacity through.
requestErrorNoCapacityCheck(req) ==
    IF Len(req.clients) = 0 THEN "At least one client is required to plan tours."
    ELSE IF req.desiredTourCountHalves % 2 # 0 \/ desiredTourCount(req) <= 0
    THEN "desiredTourCount must be a positive integer."
    ELSE IF normalizeCoordinateError(req.depot) # "" THEN "Depot coordinate"
    ELSE IF \E i \in 1..Len(req.clients) : normalizeClientError(req.clients[i], i - 1) # ""
    THEN "Client"
    ELSE ""

\* The checks of planDeliveryTours before buildMatrix: the error thrown, "" when none
requestError(req) ==
    IF Len(req.clients) = 0 THEN "At least one client is required to plan tours."
    ELSE IF ~IsFiniteNumber(req.truckCapacityKg) \/ req.truckCapacityKg <= 0
    THEN "Truck capacity must be a positive number."
    ELSE IF req.desiredTourCountHalves % 2 # 0 \/ desiredTourCount(req) <= 0
    THEN "desiredTourCount must be a positive integer."
    ELSE IF normalizeCoordinateError(req.depot) # "" THEN "Depot coordinate"
    ELSE IF \E i \in 1..Len(req.clients) : normalizeClientError(req.clients[i], i - 1) # ""
    THEN "Client"
    ELSE ""

normalizeClients(req, opts) ==
    [i \in 1..Len(req.clients) |->
        normalizeClient(req.clients[i], i - 1, normalizeCoordinate(req.depot), RefDay,
                        opts.averageSpeedKmh)]

\* ------------------------------------------------------------------------
\* Warnings: the text of the template, the number and the name interpolated
\* ------------------------------------------------------------------------
Warning(text, n, name) == [text |-> text, n |-> n, name |-> name]
W_MatrixSize(cellCount) ==
    Warning("Matrix size exceeds limit. Falling back to haversine distances.", cellCount, "")
W_MatrixFailed == Warning("ORS matrix request failed. Using haversine fallback.", 0, "")
W_Fallback == Warning("Used haversine fallback for pairwise distances and durations.", 0, "")
W_MissingDistance == Warning("Missing distance value in matrix response, used haversine estimate.", 0, "")
W_MissingDuration == Warning("Missing duration value in matrix response, estimated from average speed.", 0, "")
W_MaxCandidates(cap) == Warning("Reached max candidates per tour constraint.", cap, "")
W_ExceedsCapacity(name) == Warning("Client exceeds truck capacity and remains unassigned.", 0, name)
W_Unassigned(count) == Warning("client(s) remain unassigned after planning.", count, "")

\* ------------------------------------------------------------------------
\* Matrix provider
\* ------------------------------------------------------------------------
\* [depot, ...clients.map(c => c.coordinate)], indexed from 0
Locations(depot, clients) ==
    [i \in 0..Len(clients) |-> IF i = 0 THEN depot ELSE clients[i].coordinate]

LocationCount(locations) == Cardinality(DOMAIN locations)

\* buildFallbackMatrix
buildFallbackMatrix(locations, averageSpeedKmh, warnings) ==
    LET idx == DOMAIN locations
    IN  [distancesKm |-> [i \in idx |-> [j \in idx |->
                            IF i = j THEN 0 ELSE haversineDistanceKm(locations[i], locations[j])]],
         durationsMin |-> [i \in idx |-> [j \in idx |->
                            IF i = j THEN 0
                            ELSE durationFromDistance(
                                     haversineDistanceKm(locations[i], locations[j]),
                                     averageSpeedKmh)]],
         warnings |-> Append(warnings, W_Fallback)]

\* The warnings normalizeMatrixResponse pushes for cells k, k+1, ... in loop order (row by row)
RECURSIVE cellWarnings(_, _, _)
cellWarnings(response, size, k) ==
    IF k >= size * size THEN <<>>
    ELSE LET i == k \div size
             j == k % size
         IN  (IF IsNumber(response.distances[i][j]) THEN <<>> ELSE <<W_MissingDistance>>)
             \o (IF IsNumber(response.durations[i][j]) THEN <<>> ELSE <<W_MissingDuration>>)
             \o cellWarnings(response, size, k + 1)

\* A variant that gives up the whole answer for the haversine matrix when a distance
\* is missing.
normalizeMatrixResponseAllOrNothing(response, locations, averageSpeedKmh, warnings) ==
    IF \A i, j \in DOMAIN locations : IsNumber(response.distances[i][j])
    THEN [distancesKm |-> [i \in DOMAIN locations |-> [j \in DOMAIN locations |->
                              response.distances[i][j] \div MetresPerKm]],
          durationsMin |-> [i \in DOMAIN locations |-> [j \in DOMAIN locations |->
                              IF IsNumber(response.durations[i][j])
                              THEN response.durations[i][j] \div SEC_PER_MIN
                              ELSE durationFromDistance(response.distances[i][j] \div MetresPerKm,
                                                        averageSpeedKmh)]],
          warnings |-> warnings \o cellWarnings(response, LocationCount(locations), 0)]
    ELSE [distancesKm |-> [i \in DOMAIN locations |-> [j \in DOMAIN locations |->
                              haversineDistanceKm(locations[i], locations[j])]],
          durationsMin |-> [i \in DOMAIN locations |-> [j \in DOMAIN locations |->
                              durationFromDistance(
                                  haversineDistanceKm(locations[i], locations[j]),
                                  averageSpeedKmh)]],
          warnings |-> warnings \o cellWarnings(response, LocationCount(locations), 0)]

\* normalizeMatrixResponse
normalizeMatrixResponse(response, locations, averageSpeedKmh, warnings) ==
    LET idx == DOMAIN locations
        distancesKm == [i \in idx |-> [j \in idx |->
            IF IsNumber(response.distances[i][j])
            THEN response.distances[i][j] \div MetresPerKm
            ELSE haversineDistanceKm(locations[i], locations[j])]]
    IN  [distancesKm |-> distancesKm,
         durationsMin |-> [i \in idx |-> [j \in idx |->
            IF IsNumber(response.durations[i][j])
            THEN response.durations[i][j] \div SEC_PER_MIN
            ELSE durationFromDistance(distancesKm[i][j], averageSpeedKmh)]],
         warnings |-> warnings \o cellWarnings(response, LocationCount(locations), 0)]

matrixMaxCells(opts) ==
    IF opts.limits.matrixMaxCells = Undefined
    THEN DEFAULT_LIMITS.matrixMaxLocationsProduct
    ELSE opts.limits.matrixMaxCells

\* A size check that compares the number of locations, not of cells, with the ceiling.
matrixTooLargeCountOnly(locations, opts) ==
    LocationCount(locations) > matrixMaxCells(opts)

\* cellCount > maxCells
matrixTooLarge(locations, opts) ==
    LocationCount(locations) * LocationCount(locations) > matrixMaxCells(opts)

\* buildMatrix, the branch taken without a remote call
matrixWhenTooLarge(locations, opts) ==
    buildFallbackMatrix(locations, opts.averageSpeedKmh,
        <<W_MatrixSize(LocationCount(locations) * LocationCount(locations))>>)

\* buildMatrix, the catch branch
matrixAfterFailure(locations, opts) ==
    buildFallbackMatrix(locations, opts.averageSpeedKmh, <<W_MatrixFailed>>)

\* buildMatrix, the try branch
matrixAfterResponse(response, locations, opts) ==
    normalizeMatrixResponse(response, locations, opts.averageSpeedKmh, <<>>)

\* What the matrix endpoint answers (metres, seconds): the road along the meridian at
\* 66 km/h; the same with a detour on the way back to a location listed earlier, of 11 km
\* to the one listed just before and of 33 km to the others (so that the way through a
\* third location can be the shorter); an answer with an 11 km detour on every way
\* back, a hole in the distances and no durations; and the road answer with a loop at
\* the last location.
RoadResponse(locations) ==
    LET idx == DOMAIN locations
        km(i, j) == haversineDistanceKm(locations[i], locations[j])
    IN  [distances |-> [i \in idx |-> [j \in idx |-> km(i, j) * MetresPerKm]],
         durations |-> [i \in idx |-> [j \in idx |-> ((km(i, j) * 60) \div 66) * SEC_PER_MIN]]]

OneWayResponse(locations) ==
    LET idx == DOMAIN locations
        km(i, j) == haversineDistanceKm(locations[i], locations[j])
                      + (IF i > j + 1 THEN 33 ELSE IF i > j THEN 11 ELSE 0)
    IN  [distances |-> [i \in idx |-> [j \in idx |-> IF i = j THEN 0 ELSE km(i, j) * MetresPerKm]],
         durations |-> [i \in idx |-> [j \in idx |->
                          IF i = j THEN 0 ELSE ((km(i, j) * 60) \div 66) * SEC_PER_MIN]]]

SparseResponse(locations) ==
    LET idx == DOMAIN locations
        km(i, j) == haversineDistanceKm(locations[i], locations[j]) + (IF i > j THEN 11 ELSE 0)
    IN  [distances |-> [i \in idx |-> [j \in idx |->
                          IF i = 0 /\ j = 1 THEN Undefined ELSE km(i, j) * MetresPerKm]],
         durations |-> [i \in idx |-> [j \in idx |-> Undefined]]]

\* The road answer in which the last location is one kilometre and one minute away from
\* itself.
LoopResponse(locations) ==
    LET idx == DOMAIN locations
        last == LocationCount(locations) - 1
        km(i, j) == haversineDistanceKm(locations[i], locations[j])
    IN  [distances |-> [i \in idx |-> [j \in idx |->
                          IF i = last /\ j = last THEN MetresPerKm ELSE km(i, j) * MetresPerKm]],
         durations |-> [i \in idx |-> [j \in idx |->
                          IF i = last /\ j = last THEN SEC_PER_MIN
                          ELSE ((km(i, j) * 60) \div 66) * SEC_PER_MIN]]]

MatrixResponses(locations) ==
    {RoadResponse(locations), OneWayResponse(locations), SparseResponse(locations),
     LoopResponse(locations)}

\* ------------------------------------------------------------------------
\* Scoring engine
\* ------------------------------------------------------------------------
\* computeNeighborCounts
computeNeighborCounts(clients, m, neighborRadiusKm) ==
    [c \in 1..Len(clients) |->
        [clients[c] EXCEPT !.neighborCount =
            Cardinality({o \in 1..Len(clients) :
                /\ clients[o].id # clients[c].id
                /\ m.distancesKm[clients[c].matrixIndex][clients[o].matrixIndex]
                       <= neighborRadiusKm})]]

\* updateClientBaseMetrics
updateClientBaseMetrics(clients, m) ==
    [c \in 1..Len(clients) |->
        [clients[c] EXCEPT !.distanceFromDepotKm = m.distancesKm[0][clients[c].matrixIndex],
                           !.durationFromDepotMin = m.durationsMin[0][clients[c].matrixIndex]]]

SeqMax(s, floor) ==
    IF \A i \in 1..Len(s) : s[i] <= floor THEN floor
    ELSE CHOOSE x \in Range(s) : \A i \in 1..Len(s) : s[i] <= x

\* computeScoring.  The score of the code is score / (100 * A * D * N) of the model, where
\* A, D, N are the maxima of age, distance and neighbour count (1 when the maximum is 0):
\* one common positive denominator for all clients of a run, so scores compare alike.
computeScoring(clients, weights) ==
    LET maxAge == SeqMax([i \in 1..Len(clients) |-> clients[i].ageDays], 0)
        maxDistance == SeqMax([i \in 1..Len(clients) |-> clients[i].distanceFromDepotKm], 0)
        maxNeighbors == SeqMax([i \in 1..Len(clients) |-> clients[i].neighborCount], 0)
        A == IF maxAge > 0 THEN maxAge ELSE 1
        D == IF maxDistance > 0 THEN maxDistance ELSE 1
        N == IF maxNeighbors > 0 THEN maxNeighbors ELSE 1
    IN  [c \in 1..Len(clients) |->
            [clients[c] EXCEPT !.score =
                (IF maxAge > 0 THEN clients[c].ageDays * D * N * weights.age ELSE 0)
                + (IF maxDistance > 0
                   THEN clients[c].distanceFromDepotKm * A * N * weights.distance ELSE 0)
                + (IF maxNeighbors > 0
                   THEN clients[c].neighborCount * A * D * weights.cluster ELSE 0)
                + (IF clients[c].urgent THEN A * D * N * weights.urgent ELSE 0)]]

\* ------------------------------------------------------------------------
\* Seed selector
\* ------------------------------------------------------------------------
\* Array.prototype.sort is stable: position of element i of s in the sorted array, where
\* before[a][b] says that the comparator puts s[a] strictly before s[b].
SortRank(s, i, before) ==
    1 + Cardinality({j \in 1..Len(s) : before[j][i] \/ (~before[i][j] /\ j < i)})

StableSort(s, before) ==
    [r \in 1..Len(s) |-> s[CHOOSE i \in 1..Len(s) : SortRank(s, i, before) = r]]

\* (a, b) => b.score - a.score || b.ageDays - a.ageDays
seedOrder(a, b) == a.score > b.score \/ (a.score = b.score /\ a.ageDays > b.ageDays)
bySeedOrder(s) == [a \in 1..Len(s) |-> [b \in 1..Len(s) |-> seedOrder(s[a], s[b])]]

\* The loop of selectSeeds over sorted[k..]: the matrix indices of the seeds
RECURSIVE selectSeedsFrom(_, _, _, _)
selectSeedsFrom(sorted, k, picked, desiredCount) ==
    IF k > Len(sorted) THEN picked
    ELSE LET client == sorted[k]
         IN  IF client.weightKg <= 0
             THEN selectSeedsFrom(sorted, k + 1, picked, desiredCount)
             ELSE LET next == IF \E s \in 1..Len(picked) : picked[s].id = client.id
                              THEN picked ELSE Append(picked, client)
                  IN  IF Len(next) >= desiredCount THEN next
                      ELSE selectSeedsFrom(sorted, k + 1, next, desiredCount)

\* selectSeeds: the seeds in order, as matrix indices
selectSeeds(clients, desiredCount) ==
    LET picked == selectSeedsFrom(StableSort(clients, bySeedOrder(clients)), 1, <<>>, desiredCount)
    IN  [k \in 1..Len(picked) |-> picked[k].matrixIndex]

\* client.seed = true
markSeeds(clients, seedIndices) ==
    [c \in 1..Len(clients) |->
        [clients[c] EXCEPT !.seed = clients[c].matrixIndex \in Range(seedIndices)]]

\* ------------------------------------------------------------------------
\* GeoJSON values: records with a type tag
\* ------------------------------------------------------------------------
FeatureCollection(features) == [type |-> "FeatureCollection", features |-> features]
Feature(geometry) == [type |-> "Feature", geometry |-> geometry]
Polygon(rings) == [type |-> "Polygon", coordinates |-> rings]
LineString(coordinates) == [type |-> "LineString", coordinates |-> coordinates]

\* A rectangle across the meridian between two latitudes, as a closed ring
RectangleRing(latLow, latHigh) ==
    <<<<-1, latLow>>, <<1, latLow>>, <<1, latHigh>>, <<-1, latHigh>>, <<-1, latLow>>>>

\* ------------------------------------------------------------------------
\* Reachability gate: point in polygon
\* ------------------------------------------------------------------------
\* The edge test of the ray casting loop, ring[i] against ring[j]:
\*   yi > lat !== yj > lat && lon < ((xj - xi) * (lat - yi)) / (yj - yi) + xi
\* (the second conjunct multiplied by yj - yi, which is not 0 when the first holds)
edgeIntersects(ring, i, j, lon, lat) ==
    LET xi == ring[i][1]
        yi == ring[i][2]
        xj == ring[j][1]
        yj == ring[j][2]
    IN  /\ (yi > lat) # (yj > lat)
        /\ IF yj - yi > 0
           THEN (lon - xi) * (yj - yi) < (xj - xi) * (lat - yi)
           ELSE (lon - xi) * (yj - yi) > (xj - xi) * (lat - yi)

\* isPointInsidePolygon: an odd number of edges crossed
isPointInsidePolygon(polygon, coordinate) ==
    IF Len(polygon.coordinates) = 0 THEN FALSE
    ELSE LET outerRing == polygon.coordinates[1]
             n == Len(outerRing)
             crossed == {i \in 1..n :
                           edgeIntersects(outerRing, i, IF i = 1 THEN n ELSE i - 1,
                                          coordinate[1], coordinate[2])}
         IN  Cardinality(crossed) % 2 = 1

\* isPointInsideFeature
RECURSIVE isPointInsideFeature(_, _)
isPointInsideFeature(geometry, coordinate) ==
    IF ~IsTruthy(geometry) THEN FALSE
    ELSE IF geometry.type = "FeatureCollection"
    THEN \E f \in 1..Len(geometry.features) :
             isPointInsideFeature(geometry.features[f], coordinate)
    ELSE IF geometry.type = "Feature"
    THEN IF ~IsTruthy(geometry.geometry) THEN FALSE
         ELSE isPointInsideFeature(geometry.geometry, coordinate)
    ELSE IF geometry.type = "Polygon"
    THEN isPointInsidePolygon(geometry, coordinate)
    ELSE IF geometry.type = "MultiPolygon"
    THEN \E p \in 1..Len(geometry.coordinates) :
             isPointInsidePolygon(Polygon(geometry.coordinates[p]), coordinate)
    ELSE FALSE

\* ------------------------------------------------------------------------
\* Route proximity evaluator
\* ------------------------------------------------------------------------
DEFAULT_TOLERANCE_KM == 0       \* 0.1 km: below one kilometre, the unit of the model

\* sanitizeCoordinate(c) # null.  Number(x) leaves a number as it is and gives NaN for
\* undefined.
isUsableCoordinate(c) == Len(c) >= 2 /\ IsFiniteNumber(c[1]) /\ IsFiniteNumber(c[2])

\* sanitizeLine
sanitizeLine(coordinates) ==
    LET kept == SelectSeq(coordinates, isUsableCoordinate)
    IN  [k \in 1..Len(kept) |-> <<kept[k][1], kept[k][2]>>]

\* appendLineStrings: the lines appended to the sink
RECURSIVE appendLineStrings(_)
RECURSIVE appendAll(_, _)
appendAll(geometries, k) ==
    IF k > Len(geometries) THEN <<>>
    ELSE appendLineStrings(geometries[k]) \o appendAll(geometries, k + 1)

appendLineStrings(geometry) ==
    IF geometry.type = "FeatureCollection"
    THEN appendAll([f \in 1..Len(geometry.features) |->
                       IF IsTruthy(geometry.features[f].geometry)
                       THEN geometry.features[f].geometry
                       ELSE [type |-> "null"]], 1)
    ELSE IF geometry.type = "Feature"
    THEN IF IsTruthy(geometry.geometry) THEN appendLineStrings(geometry.geometry) ELSE <<>>
    ELSE IF geometry.type = "GeometryCollection"
    THEN appendAll(geometry.geometries, 1)
    ELSE IF geometry.type = "LineString"
    THEN IF Len(sanitizeLine(geometry.coordinates)) >= 2
         THEN <<sanitizeLine(geometry.coordinates)>> ELSE <<>>
    ELSE IF geometry.type = "MultiLineString"
    THEN LET lines == [l \in 1..Len(geometry.coordinates) |->
                          sanitizeLine(geometry.coordinates[l])]
         IN  SelectSeq(lines, LAMBDA line : Len(line) >= 2)
    ELSE <<>>

\* A variant that measures to the start of the segment on either side of it.
pointToSegmentDistanceKmFromStart(point, start, end) ==
    IF (point[2] - start[2]) * (end[2] - start[2]) > 0
       /\ haversineDistanceKm(start, point) <= haversineDistanceKm(start, end)
    THEN 0
    ELSE haversineDistanceKm(start, point)

\* pointToSegmentDistanceKm for a point and a segment of the meridian.  The bearings from
\* start to point and from start to end are 0 or pi, so the cross-track distance is 0 and
\* the along-track distance is the distance to start, negative when point and end lie on
\* opposite sides of start.
pointToSegmentDistanceKm(point, start, end) ==
    LET segmentLengthKm == haversineDistanceKm(start, end)
        distanceToStartKm == haversineDistanceKm(start, point)
        sameSide == (point[2] - start[2]) * (end[2] - start[2]) > 0
        alongTrackKm == IF sameSide THEN distanceToStartKm ELSE -distanceToStartKm
    IN  IF segmentLengthKm = 0 THEN haversineDistanceKm(point, start)
        ELSE IF distanceToStartKm = 0 THEN 0
        ELSE IF alongTrackKm < 0 THEN distanceToStartKm
        ELSE IF alongTrackKm - segmentLengthKm > 0 THEN haversineDistanceKm(point, end)
        ELSE 0

\* computeMinimumDistanceKm
computeMinimumDistanceKm(lines, coordinate) ==
    LET ds == UNION {{pointToSegmentDistanceKm(coordinate, lines[l][i], lines[l][i + 1]) :
                         i \in 1..(Len(lines[l]) - 1)} : l \in 1..Len(lines)}
    IN  IF ds = {} THEN Infinity ELSE CHOOSE d \in ds : \A e \in ds : d <= e

\* The result when an empty collection of line strings is measured like any other.
proximityToLinesUnchecked(lineStrings, coordinate, toleranceKm) ==
    [error |-> "",
     distanceKm |-> computeMinimumDistanceKm(lineStrings, coordinate),
     isWithinTolerance |->
         computeMinimumDistanceKm(lineStrings, coordinate)
             <= (IF toleranceKm > 0 THEN toleranceKm ELSE DEFAULT_TOLERANCE_KM)]

\* The result of computeRouteProximity once the line strings of the route are collected
proximityToLines(lineStrings, coordinate, toleranceKm) ==
    IF Len(lineStrings) = 0
    THEN [error |-> "Route GeoJSON must contain at least one LineString with two or more coordinates.",
          distanceKm |-> 0, isWithinTolerance |-> FALSE]
    ELSE [error |-> "",
          distanceKm |-> computeMinimumDistanceKm(lineStrings, coordinate),
          isWithinTolerance |->
              computeMinimumDistanceKm(lineStrings, coordinate)
                  <= (IF toleranceKm > 0 THEN toleranceKm ELSE DEFAULT_TOLERANCE_KM)]

\* computeRouteProximity: error is the message thrown, "" when it returns
computeRouteProximity(route, coordinate, toleranceKm) ==
    IF ~IsTruthy(route) \/ ~IsObjectType(route)
    THEN [error |-> "Route GeoJSON input is required.", distanceKm |-> 0,
          isWithinTolerance |-> FALSE]
    ELSE IF Len(coordinate) # 2 \/ ~IsFiniteNumber(coordinate[1])
            \/ ~IsFiniteNumber(coordinate[2])
    THEN [error |-> "Coordinate must be a [lon, lat] pair with finite values.",
          distanceKm |-> 0, isWithinTolerance |-> FALSE]
    ELSE proximityToLines(appendLineStrings(route), coordinate, toleranceKm)

\* ------------------------------------------------------------------------
\* Tour builder
\* ------------------------------------------------------------------------
\* The added distance of putting candidate at 0-based place insertAt of sequence
\* (matrix indices); the depot, index 0, precedes the first stop and follows the last.
costIncreaseAt(sequence, candidate, m, insertAt) ==
    LET prevIndex == IF insertAt = 0 THEN 0 ELSE sequence[insertAt]
        nextIndex == IF insertAt = Len(sequence) THEN 0 ELSE sequence[insertAt + 1]
    IN  m.distancesKm[prevIndex][candidate] + m.distancesKm[candidate][nextIndex]
            - m.distancesKm[prevIndex][nextIndex]

\* A variant that considers the place before the first stop whatever lockFirst says.
bestInsertionIndexUnlocked(sequence, candidate, m, lockFirst) ==
    IF Len(sequence) = 0
    THEN [index |-> 0, costIncreaseKm |-> m.distancesKm[0][candidate]]
    ELSE LET places == 0..Len(sequence)
             best == CHOOSE p \in places :
                        \A q \in places :
                            \/ costIncreaseAt(sequence, candidate, m, p)
                                   < costIncreaseAt(sequence, candidate, m, q)
                            \/ (costIncreaseAt(sequence, candidate, m, p)
                                   = costIncreaseAt(sequence, candidate, m, q) /\ p <= q)
         IN  [index |-> best, costIncreaseKm |-> costIncreaseAt(sequence, candidate, m, best)]

\* bestInsertionIndex: the first place of least added distance; index is 0-based
bestInsertionIndex(sequence, candidate, m, lockFirst) ==
    IF Len(sequence) = 0
    THEN [index |-> 0, costIncreaseKm |-> m.distancesKm[0][candidate]]
    ELSE LET places == {p \in 0..Len(sequence) : ~(lockFirst /\ p = 0)}
             best == CHOOSE p \in places :
                        \A q \in places :
                            \/ costIncreaseAt(sequence, candidate, m, p)
                                   < costIncreaseAt(sequence, candidate, m, q)
                            \/ (costIncreaseAt(sequence, candidate, m, p)
                                   = costIncreaseAt(sequence, candidate, m, q) /\ p <= q)
         IN  [index |-> best, costIncreaseKm |-> costIncreaseAt(sequence, candidate, m, best)]

\* { ...client, position, insertionCostKm }
PlannedStop(client, position, insertionCostKm) ==
    [id |-> client.id, name |-> client.name, coordinate |-> client.coordinate,
     weightKg |-> client.weightKg, orderDate |-> client.orderDate, urgent |-> client.urgent,
     ageDays |-> client.ageDays, distanceFromDepotKm |-> client.distanceFromDepotKm,
     durationFromDepotMin |-> client.durationFromDepotMin,
     neighborCount |-> client.neighborCount, score |-> client.score, seed |-> client.seed,
     matrixIndex |-> client.matrixIndex,
     position |-> position, insertionCostKm |-> insertionCostKm]

\* A variant that leaves the positions as they were written at the splice.
renumberNot(stops) == stops

\* stops.map((stop, index) => ({ ...stop, position: index + 1 }))
renumber(stops) == [k \in 1..Len(stops) |-> [stops[k] EXCEPT !.position = k]]

stopIndices(stops) == [k \in 1..Len(stops) |-> stops[k].matrixIndex]

\* new Map(clients.map(c => [c.id, c])): the values in key order.  A key keeps the place
\* of its first entry and the value of its last.
newClientMap(clients) ==
    LET firstOfId(i) == \A j \in 1..(i - 1) : clients[j].id # clients[i].id
        lastOfId(i) == CHOOSE j \in 1..Len(clients) :
                          /\ clients[j].id = clients[i].id
                          /\ \A k \in (j + 1)..Len(clients) : clients[k].id # clients[i].id
        firsts == SelectSeq([i \in 1..Len(clients) |-> i], firstOfId)
    IN  [k \in 1..Len(firsts) |-> clients[lastOfId(firsts[k])].matrixIndex]

\* Map.has, Map.delete on a map held as the sequence of its values (matrix indices)
mapHas(map, clients, id) == \E k \in 1..Len(map) : clients[map[k]].id = id
mapDelete(map, clients, id) == SelectSeq(map, LAMBDA v : clients[v].id # id)

\* An admission test that looks at the weight alone.
isFeasibleByWeightOnly(candidate, seed, totalWeight, m, capacityKg, clusterRadiusKm, isochrone) ==
    ~(candidate.weightKg + totalWeight > capacityKg)

\* An admission test that holds every candidate to the cluster radius, isochrone or not.
isFeasibleWithinRadius(candidate, seed, totalWeight, m, capacityKg, clusterRadiusKm, isochrone) ==
    /\ ~(candidate.weightKg + totalWeight > capacityKg)
    /\ ~(m.distancesKm[seed.matrixIndex][candidate.matrixIndex] > clusterRadiusKm)

\* The admission test of buildTour's candidate loop
isFeasible(candidate, seed, totalWeight, m, capacityKg, clusterRadiusKm, isochrone) ==
    /\ ~(candidate.weightKg + totalWeight > capacityKg)
    /\ ~(/\ IsTruthy(isochrone)
         /\ ~isPointInsideFeature(isochrone, candidate.coordinate)
         /\ m.distancesKm[seed.matrixIndex][candidate.matrixIndex] > clusterRadiusKm)

\* priority = candidate.score * distanceScore, as the fraction num / den
priorityOf(candidate, seed, m, clusterRadiusKm) ==
    LET distanceToSeed == m.distancesKm[seed.matrixIndex][candidate.matrixIndex]
    IN  IF distanceToSeed <= clusterRadiusKm
        THEN [num |-> candidate.score, den |-> 1]
        ELSE [num |-> candidate.score * clusterRadiusKm, den |-> distanceToSeed]

\* A comparator that looks at the priority alone.
feasibleOrderByPriorityOnly(a, b) ==
    a.priority.num * b.priority.den > b.priority.num * a.priority.den

\* The comparator of feasible.sort: a strictly before b
feasibleOrder(a, b) ==
    \/ a.priority.num * b.priority.den > b.priority.num * a.priority.den
    \/ /\ a.priority.num * b.priority.den = b.priority.num * a.priority.den
       /\ a.costKm < b.costKm
byFeasibleOrder(s) == [a \in 1..Len(s) |-> [b \in 1..Len(s) |-> feasibleOrder(s[a], s[b])]]

\* The candidates of remaining that pass the filters of the for loop, in map order
feasibleCandidates(seed, clients, acc, m, capacityKg, opts, isochrone) ==
    SelectSeq(acc.left, LAMBDA v :
        isFeasible(clients[v], seed, acc.totalWeight, m, capacityKg,
                   opts.clusterRadiusKm, isochrone))

\* feasible.push({ client, insertionIndex, costKm, priority })
feasibleEntry(candidate, best, priority) ==
    [client |-> candidate, insertionIndex |-> best.index, costKm |-> best.costIncreaseKm,
     priority |-> priority]

\* The array feasible of one turn of the while loop
feasibleList(candidates, seed, clients, acc, m, opts) ==
    [k \in 1..Len(candidates) |->
        feasibleEntry(candidates[k],
                      bestInsertionIndex(stopIndices(acc.stops), candidates[k], m, TRUE),
                      priorityOf(clients[candidates[k]], seed, m, opts.clusterRadiusKm))]

\* The end of one turn: choice is spliced in, and the loop breaks at maxCandidatesPerTour
addChoice(clients, acc, opts, choice) ==
    [stops |-> InsertAt(acc.stops, choice.insertionIndex + 1,
                   PlannedStop(clients[choice.client], choice.insertionIndex + 1,
                               Max(choice.costKm, 0))),
     totalWeight |-> acc.totalWeight + clients[choice.client].weightKg,
     left |-> mapDelete(acc.left, clients, clients[choice.client].id),
     warnings |-> IF Len(acc.stops) + 1 >= opts.maxCandidatesPerTour
                  THEN <<W_MaxCandidates(opts.maxCandidatesPerTour)>> ELSE <<>>,
     open |-> Len(acc.stops) + 1 < opts.maxCandidatesPerTour,
     growth |-> acc.growth]

\* One entry of the history of a tour's insertions, which the code does not keep: the
\* stops before the splice and after it (matrix indices), the clients that were in
\* feasible, the client spliced in, the insertionCostKm written to its stop, and who
\* spliced
growthEntry(stopsBefore, candidates, chosen, stopsAfter, by) ==
    [before |-> stopIndices(stopsBefore),
     candidates |-> candidates,
     chosen |-> chosen,
     after |-> stopIndices(stopsAfter),
     cost |-> stopsAfter[CHOOSE k \in 1..Len(stopsAfter) :
                             stopsAfter[k].matrixIndex = chosen].insertionCostKm,
     by |-> by]

\* History of the while loop: the turn that led from acc to next
noteGrowth(next, acc, feasible) ==
    [next EXCEPT !.growth =
        Append(acc.growth,
               growthEntry(acc.stops, {feasible[k].client : k \in 1..Len(feasible)},
                           CHOOSE v \in Range(acc.left) : v \notin Range(next.left),
                           next.stops, "builder"))]

\* One turn of the while loop once feasible is filled: break, or feasible.sort()[0]
takeChoice(clients, acc, opts, feasible) ==
    IF Len(acc.left) = 0 \/ Len(feasible) = 0
    THEN [acc EXCEPT !.open = FALSE]
    ELSE noteGrowth(
             addChoice(clients, acc, opts, StableSort(feasible, byFeasibleOrder(feasible))[1]),
             acc, feasible)

\* One turn of the while loop
tourStep(seed, clients, acc, m, capacityKg, opts, isochrone) ==
    takeChoice(clients, acc, opts,
        feasibleList(feasibleCandidates(seed, clients, acc, m, capacityKg, opts, isochrone),
                     seed, clients, acc, m, opts))

\* The while loop of buildTour: acc holds plannedStops, totalWeight, remaining (left),
\* warnings, and whether the loop goes on
RECURSIVE buildTourLoop(_, _, _, _, _, _, _)
buildTourLoop(seed, clients, acc, m, capacityKg, opts, isochrone) ==
    IF acc.open
    THEN buildTourLoop(seed, clients,
             tourStep(seed, clients, acc, m, capacityKg, opts, isochrone),
             m, capacityKg, opts, isochrone)
    ELSE acc

\* The BuildTourContext buildTour returns, with the history of its loop (growth) and the
\* number of directions requests made for the tour so far (asked), which the code does
\* not keep
tourContext(seedIndex, built) ==
    [seed |-> seedIndex,
     stops |-> renumber(built.stops),
     totalWeight |-> built.totalWeight,
     warnings |-> built.warnings,
     routeGeoJson |-> NoGeometry,
     growth |-> built.growth,
     asked |-> 0]

\* buildTour: the BuildTourContext, seed given by its matrix index
buildTour(seedIndex, clients, candidates, m, capacityKg, opts, isochrone) ==
    tourContext(seedIndex,
        buildTourLoop(clients[seedIndex], clients,
            [stops |-> <<PlannedStop(clients[seedIndex], 1,
                                     m.distancesKm[0][clients[seedIndex].matrixIndex])>>,
             totalWeight |-> clients[seedIndex].weightKg,
             left |-> mapDelete(candidates, clients, clients[seedIndex].id),
             warnings |-> <<>>,
             open |-> TRUE,
             growth |-> <<>>],
            m, capacityKg, opts, isochrone))

\* sumRouteMetrics
sumRouteMetrics(tour, m) ==
    LET path == <<0>> \o stopIndices(tour.stops) \o <<0>>
    IN  [distanceKm |-> SeqSum([k \in 1..(Len(path) - 1) |-> m.distancesKm[path[k]][path[k + 1]]]),
         durationMin |-> SeqSum([k \in 1..(Len(path) - 1) |-> m.durationsMin[path[k]][path[k + 1]]])]

\* ------------------------------------------------------------------------
\* Corridor injector
\* ------------------------------------------------------------------------
\* A variant that writes the added distance as it is, negative or not.
injectStopUnfloored(acc, clients, candidate, best) ==
    [stops |-> InsertAt(acc.stops, best.index + 1,
                   PlannedStop(candidate, best.index + 1, best.costIncreaseKm)),
     totalWeight |-> acc.totalWeight + candidate.weightKg,
     remaining |-> mapDelete(acc.remaining, clients, candidate.id),
     inserted |-> TRUE,
     growth |-> Append(acc.growth,
                   growthEntry(acc.stops, {}, candidate.matrixIndex,
                       InsertAt(acc.stops, best.index + 1,
                           PlannedStop(candidate, best.index + 1, best.costIncreaseKm)),
                       "injector"))]

\* The body of the insertion loop for a candidate that fits, best its insertion place
injectStop(acc, clients, candidate, best) ==
    [stops |-> InsertAt(acc.stops, best.index + 1,
                   PlannedStop(candidate, best.index + 1, Max(best.costIncreaseKm, 0))),
     totalWeight |-> acc.totalWeight + candidate.weightKg,
     remaining |-> mapDelete(acc.remaining, clients, candidate.id),
     inserted |-> TRUE,
     growth |-> Append(acc.growth,
                   growthEntry(acc.stops, {}, candidate.matrixIndex,
                       InsertAt(acc.stops, best.index + 1,
                           PlannedStop(candidate, best.index + 1, Max(best.costIncreaseKm, 0))),
                       "injector"))]

\* The insertion loop of injectAlongRouteClients over nearby[k..]
RECURSIVE injectLoop(_, _, _, _, _, _)
injectLoop(nearby, k, clients, acc, m, capacityKg) ==
    IF k > Len(nearby) THEN acc
    ELSE IF clients[nearby[k]].weightKg + acc.totalWeight > capacityKg
    THEN injectLoop(nearby, k + 1, clients, acc, m, capacityKg)
    ELSE injectLoop(nearby, k + 1, clients,
             injectStop(acc, clients, clients[nearby[k]],
                 bestInsertionIndex(stopIndices(acc.stops), clients[nearby[k]].matrixIndex,
                                    m, TRUE)),
             m, capacityKg)

\* (a, b) => b.score - a.score
scoreOrder(a, b) == a.score > b.score
byScoreOrder(s) == [a \in 1..Len(s) |-> [b \in 1..Len(s) |-> scoreOrder(s[a], s[b])]]
sortByScore(s) == StableSort(s, byScoreOrder(s))

\* A variant that considers every client of remaining.
consideredForAll(tour, clients, remainingMap) == remainingMap

\* The clients of remaining that are not stops of the tour, in map order
consideredFor(tour, clients, remainingMap) ==
    SelectSeq(remainingMap, LAMBDA v :
        ~\E s \in 1..Len(tour.stops) : tour.stops[s].id = clients[v].id)

\* computeRouteProximity for each of them
proximities(tour, clients, considered, toleranceKm) ==
    [k \in 1..Len(considered) |->
        computeRouteProximity(tour.routeGeoJson, clients[considered[k]].coordinate, toleranceKm)]

\* The considered clients within tolerance of the route, in map order (matrix indices)
nearIndices(considered, proximity) ==
    SelectSeq(considered, LAMBDA v :
        \E j \in 1..Len(considered) : considered[j] = v /\ proximity[j].isWithinTolerance)

clientsAt(clients, indices) == [k \in 1..Len(indices) |-> clients[indices[k]]]

\* nearby after its sort, as matrix indices
nearbyOf(clients, considered, proximity) ==
    stopIndices(sortByScore(clientsAt(clients, nearIndices(considered, proximity))))

\* What injectAlongRouteClients leaves when its loops are over
injectionResult(tour, done) ==
    [error |-> "",
     tour |-> [tour EXCEPT !.stops = renumber(done.stops), !.totalWeight = done.totalWeight,
                           !.growth = done.growth],
     remaining |-> done.remaining,
     inserted |-> done.inserted]

\* injectAlongRouteClients past its first test, the proximity of each considered client
\* computed: the first error thrown, or the insertions
injectNearby(tour, clients, m, remainingMap, capacityKg, considered, proximity) ==
    IF \E k \in 1..Len(considered) : proximity[k].error # ""
    THEN [error |-> proximity[CHOOSE k \in 1..Len(considered) : proximity[k].error # ""].error,
          tour |-> tour, remaining |-> remainingMap, inserted |-> FALSE]
    ELSE injectionResult(tour,
             injectLoop(nearbyOf(clients, considered, proximity), 1, clients,
                 [stops |-> tour.stops, totalWeight |-> tour.totalWeight,
                  remaining |-> remainingMap, inserted |-> FALSE, growth |-> tour.growth],
                 m, capacityKg))

\* A variant that goes on to the proximity of each client without looking for a route.
injectAlongRouteClientsUntested(tour, clients, m, remainingMap, toleranceKm, capacityKg) ==
    injectNearby(tour, clients, m, remainingMap, capacityKg,
        consideredFor(tour, clients, remainingMap),
        proximities(tour, clients, consideredFor(tour, clients, remainingMap), toleranceKm))

\* injectAlongRouteClients: error is the message computeRouteProximity threw ("" when it
\* returned), tour and remaining are the arguments as the call leaves them
injectAlongRouteClients(tour, clients, m, remainingMap, toleranceKm, capacityKg) ==
    IF ~IsTruthy(tour.routeGeoJson)
    THEN [error |-> "", tour |-> tour, remaining |-> remainingMap, inserted |-> FALSE]
    ELSE injectNearby(tour, clients, m, remainingMap, capacityKg,
             consideredFor(tour, clients, remainingMap),
             proximities(tour, clients, consideredFor(tour, clients, remainingMap), toleranceKm))

\* ------------------------------------------------------------------------
\* Route enricher and reachability gate: what is asked, what is answered
\* ------------------------------------------------------------------------
directionsLimit(opts) ==
    IF opts.limits.directionsMaxWaypoints = Undefined
    THEN DEFAULT_LIMITS.directionsMaxWaypoints
    ELSE opts.limits.directionsMaxWaypoints

\* A variant that never finds the tour beyond the ceiling.
directionsSkippedNever(tour, opts) == FALSE

\* tour.stops.length + 2 > directionsLimit
directionsSkipped(tour, opts) == Len(tour.stops) + 2 > directionsLimit(opts)

\* [depot, ...tour.stops.map(stop => stop.coordinate), depot]
directionsCoordinates(depot, tour) ==
    <<depot>> \o [k \in 1..Len(tour.stops) |-> tour.stops[k].coordinate] \o <<depot>>

\* What the directions endpoint answers: the route through the waypoints, or a
\* collection without any feature.
DirectionsResponses(coordinates) ==
    { FeatureCollection(<<Feature(LineString(coordinates))>>),
      FeatureCollection(<<>>) }

\* ensureIsochroneProfile throws
isochroneProfileUnsupported(profile) == profile = "wheelchair"

\* Math.min(options.maxIsoRequests, limits.isochroneMaxLocations ?? DEFAULT)
isochroneMaxRequests(opts) ==
    Min(opts.maxIsoRequests,
        IF opts.limits.isochroneMaxLocations = Undefined
        THEN DEFAULT_LIMITS.isochronesMaxLocations
        ELSE opts.limits.isochroneMaxLocations)

\* Math.min(isoRangeMinutes, maxRangeMinutes) * SEC_PER_MIN, for the driving group
isochroneRangeSeconds(opts) ==
    Min(opts.isoRangeMinutes, DEFAULT_LIMITS.maxRangeTimeHoursDriving * 60) * SEC_PER_MIN

\* A variant that issues one call for every seed.
isochroneCallCountPerSeed(seedList, opts) ==
    IF opts.isoRangeMinutes <= 0 \/ Len(seedList) = 0 \/ isochroneProfileUnsupported(opts.profile)
    THEN 0
    ELSE Len(seedList)

\* Number of isochrone calls buildIsochrones issues
isochroneCallCount(seedList, opts) ==
    IF opts.isoRangeMinutes <= 0 \/ Len(seedList) = 0 \/ isochroneProfileUnsupported(opts.profile)
    THEN 0
    ELSE Max(0, Min(Len(seedList), isochroneMaxRequests(opts)))

\* What the isochrones endpoint answers for a seed: no feature at all, the rectangle
\* from one step south of the seed to three steps north of it, or the rectangle that
\* reaches north only.
IsochroneResponses(coordinate) ==
    { FeatureCollection(<<>>),
      FeatureCollection(<<Feature(Polygon(<<RectangleRing(coordinate[2] - 1, coordinate[2] + 3)>>))>>),
      FeatureCollection(<<Feature(Polygon(<<RectangleRing(coordinate[2], coordinate[2] + 3)>>))>>) }

\* ------------------------------------------------------------------------
\* Tour planning orchestrator: planDeliveryTours between two awaits
\* ------------------------------------------------------------------------
NoMatrix == [distancesKm |-> <<>>, durationsMin |-> <<>>, warnings |-> <<>>]
NoContext == [seed |-> 0, stops |-> <<>>, totalWeight |-> 0, warnings |-> <<>>,
              routeGeoJson |-> NoGeometry, growth |-> <<>>, asked |-> 0]
NoCalls == [matrix |-> 0, isochrones |-> 0, directions |-> 0, degraded |-> {}]
Pending == [state |-> "pending", error |-> "", unassigned |-> <<>>]

\* The locals of a run that has not started
IdleRun ==
    [pc |-> "idle", normalizedClients |-> <<>>, matrix |-> NoMatrix, seeds |-> <<>>,
     isoGeometries |-> <<>>, remaining |-> <<>>, tours |-> <<>>, context |-> NoContext,
     globalWarnings |-> <<>>, cursor |-> [iso |-> 0, seed |-> 0], ors |-> NoCalls,
     result |-> Pending]

\* The locals of the run as they are
Run ==
    [pc |-> pc, normalizedClients |-> normalizedClients, matrix |-> matrix, seeds |-> seeds,
     isoGeometries |-> isoGeometries, remaining |-> remaining, tours |-> tours,
     context |-> context, globalWarnings |-> globalWarnings, cursor |-> cursor, ors |-> ors,
     result |-> result]

\* The locals of the run become r
Becomes(r) ==
    /\ pc' = r.pc
    /\ normalizedClients' = r.normalizedClients
    /\ matrix' = r.matrix
    /\ seeds' = r.seeds
    /\ isoGeometries' = r.isoGeometries
    /\ remaining' = r.remaining
    /\ tours' = r.tours
    /\ context' = r.context
    /\ globalWarnings' = r.globalWarnings
    /\ cursor' = r.cursor
    /\ ors' = r.ors
    /\ result' = r.result
    /\ UNCHANGED <<request, options>>

\* isoGeometries[seed.id] of the k-th seed (seeds have distinct ids; the geometries are
\* kept in seed order, one per call that returned or failed)
isoGeometryOf(r, k) == IF k <= Len(r.isoGeometries) THEN r.isoGeometries[k] ELSE NoGeometry

\* A variant that warns about each client too heavy for the truck and leaves the
\* count of the unassigned out.
unassignedWarningsWithoutCount(left, capacityKg) ==
    LET tooHeavy == SelectSeq(left, LAMBDA c : c.weightKg > capacityKg)
    IN  [k \in 1..Len(tooHeavy) |-> W_ExceedsCapacity(tooHeavy[k].name)]

\* if (remaining.size > 0) { ... }: what is pushed to globalWarnings for the clients left
unassignedWarnings(left, capacityKg) ==
    LET tooHeavy == SelectSeq(left, LAMBDA c : c.weightKg > capacityKg)
    IN  IF Len(left) > 0
        THEN [k \in 1..Len(tooHeavy) |-> W_ExceedsCapacity(tooHeavy[k].name)]
             \o <<W_Unassigned(Len(left))>>
        ELSE <<>>

\* The clients of remaining, in the order of the map
remainingClients(r) == [k \in 1..Len(r.remaining) |-> r.normalizedClients[r.remaining[k]]]

\* The end of planDeliveryTours: the warnings about what is left, the sorted unassigned
finishPlan(r, req) ==
    [r EXCEPT
       !.pc = "done",
       !.globalWarnings = r.globalWarnings
                          \o unassignedWarnings(remainingClients(r), req.truckCapacityKg),
       !.result = [state |-> "resolved", error |-> "",
                   unassigned |-> sortByScore(remainingClients(r))]]

\* tours.push({...}) and the removal of the tour's stops from remaining.  The record
\* also keeps context.seed (as startedBy), the history of its insertions (growth) and
\* the number of its directions requests (asked), which the pushed object does not
\* carry, so that what started a tour and how it grew can be compared with its stops.
pushTour(r) ==
    LET metrics == sumRouteMetrics(r.context, r.matrix)
        ids == {r.context.stops[k].id : k \in 1..Len(r.context.stops)}
    IN  [r EXCEPT
           !.tours = Append(r.tours,
                        [id |-> Len(r.tours) + 1,
                         stops |-> r.context.stops,
                         totalWeightKg |-> r.context.totalWeight,
                         estimatedDistanceKm |-> metrics.distanceKm,
                         estimatedDurationMin |-> metrics.durationMin,
                         routeGeoJson |-> r.context.routeGeoJson,
                         warnings |-> r.context.warnings,
                         startedBy |-> r.context.seed,
                         growth |-> r.context.growth,
                         asked |-> r.context.asked]),
           !.remaining = SelectSeq(r.remaining, LAMBDA v : r.normalizedClients[v].id \notin ids),
           !.context = NoContext,
           !.cursor.seed = r.cursor.seed + 1]

\* After injectAlongRouteClients returned `injected` for the tour with its route: the
\* error goes up to the caller; else the second enrichment when stops were injected, else
\* the tour is pushed and the loop over the seeds goes on (pc "seed_loop")
afterInjection(r, withRoute, injected, req, opts) ==
    IF injected.error # ""
    THEN [r EXCEPT !.pc = "rejected", !.context = withRoute,
                   !.result = [state |-> "rejected", error |-> injected.error,
                               unassigned |-> <<>>]]
    ELSE IF ~injected.inserted
    THEN pushTour([r EXCEPT !.pc = "seed_loop", !.context = injected.tour,
                            !.remaining = injected.remaining])
    ELSE IF directionsSkipped(injected.tour, opts)
    THEN pushTour([r EXCEPT !.pc = "seed_loop", !.context = injected.tour,
                            !.remaining = injected.remaining,
                            !.ors.degraded = r.ors.degraded \cup {"directions_skipped"}])
    ELSE [r EXCEPT !.pc = "await_directions_again",
                   !.context = [injected.tour EXCEPT !.asked = injected.tour.asked + 1],
                   !.remaining = injected.remaining,
                   !.ors.directions = r.ors.directions + 1]

\* The tour of r.context with the route geometry the first enrichWithDirections returned
withRouteGeometry(r, routeGeometry) ==
    IF IsTruthy(routeGeometry)
    THEN [r.context EXCEPT !.routeGeoJson = routeGeometry]
    ELSE r.context

\* After the first enrichWithDirections of a tour returned routeGeometry: corridor
\* injection and what follows it
afterDirections(r, routeGeometry, req, opts) ==
    afterInjection(r, withRouteGeometry(r, routeGeometry),
        injectAlongRouteClients(withRouteGeometry(r, routeGeometry), r.normalizedClients,
            r.matrix, r.remaining, opts.alongRouteToleranceKm, req.truckCapacityKg),
        req, opts)

\* After the second enrichWithDirections of a tour returned refreshedGeometry
afterDirectionsAgain(r, refreshedGeometry, req, opts) ==
    pushTour(IF IsTruthy(refreshedGeometry)
             THEN [r EXCEPT !.pc = "seed_loop", !.context.routeGeoJson = refreshedGeometry]
             ELSE [r EXCEPT !.pc = "seed_loop"])

\* The body of the loop over the seeds for a seed still in remaining, its tour built:
\* up to the directions call, or past it when the waypoint ceiling skips it
afterBuildTour(r, built, req, opts) ==
    IF directionsSkipped(built, opts)
    THEN afterDirections(
             [r EXCEPT !.context = built,
                       !.ors.degraded = r.ors.degraded \cup {"directions_skipped"}],
             NoGeometry, req, opts)
    ELSE [r EXCEPT !.pc = "await_directions",
                   !.context = [built EXCEPT !.asked = built.asked + 1],
                   !.ors.directions = r.ors.directions + 1]

\* One turn of the loop over the seeds at seed number r.cursor.seed, or the end of the
\* function when the seeds are exhausted
seedStep(r, req, opts) ==
    IF r.cursor.seed > Len(r.seeds) THEN finishPlan(r, req)
    ELSE IF ~mapHas(r.remaining, r.normalizedClients, r.normalizedClients[r.seeds[r.cursor.seed]].id)
    THEN [r EXCEPT !.cursor.seed = r.cursor.seed + 1]
    ELSE afterBuildTour(r,
             buildTour(r.seeds[r.cursor.seed], r.normalizedClients, r.remaining, r.matrix,
                       req.truckCapacityKg, opts, isoGeometryOf(r, r.cursor.seed)),
             req, opts)

\* The loop over the seeds, run until the function awaits, returns or throws
RECURSIVE runSeeds(_, _, _)
runSeeds(r, req, opts) ==
    IF r.pc = "seed_loop" THEN runSeeds(seedStep(r, req, opts), req, opts) ELSE r

\* After buildIsochrones returned: remaining, tours, globalWarnings, then the seed loop
afterIsochrones(r, req, opts) ==
    runSeeds([r EXCEPT !.pc = "seed_loop",
                       !.remaining = newClientMap(r.normalizedClients),
                       !.tours = <<>>,
                       !.globalWarnings = r.matrix.warnings,
                       !.cursor.seed = 1],
             req, opts)

\* A variant that issues the calls for all the seeds at once.
nextIsochroneTogether(r, req, opts) ==
    IF r.cursor.iso <= isochroneCallCount(r.seeds, opts)
    THEN [r EXCEPT !.pc = "await_isochrones",
                   !.ors.isochrones = isochroneCallCount(r.seeds, opts)]
    ELSE afterIsochrones(r, req, opts)

\* buildIsochrones from seed number r.cursor.iso: the next call, or its return
nextIsochrone(r, req, opts) ==
    IF r.cursor.iso <= isochroneCallCount(r.seeds, opts)
    THEN [r EXCEPT !.pc = "await_isochrones", !.ors.isochrones = r.ors.isochrones + 1]
    ELSE afterIsochrones(r, req, opts)

\* After selectSeeds returned seedList: buildIsochrones
afterSeeds(r, m, scored, seedList, req, opts) ==
    nextIsochrone(
        [r EXCEPT !.matrix = m,
                  !.normalizedClients = markSeeds(scored, seedList),
                  !.seeds = seedList,
                  !.cursor.iso = 1,
                  !.ors.degraded = IF /\ opts.isoRangeMinutes > 0
                                      /\ Len(seedList) > 0
                                      /\ isochroneProfileUnsupported(opts.profile)
                                   THEN r.ors.degraded \cup {"isochrones_disabled"}
                                   ELSE r.ors.degraded],
        req, opts)

\* After buildMatrix returned m: metrics, neighbours, scores, seeds, then buildIsochrones
afterMatrix(r, m, req, opts) ==
    afterSeeds(r, m,
        computeScoring(
            computeNeighborCounts(updateClientBaseMetrics(r.normalizedClients, m),
                                  m, opts.neighborRadiusKm),
            DEFAULT_SCORING_WEIGHTS),
        selectSeeds(
            computeScoring(
                computeNeighborCounts(updateClientBaseMetrics(r.normalizedClients, m),
                                      m, opts.neighborRadiusKm),
                DEFAULT_SCORING_WEIGHTS),
            desiredTourCount(req)),
        req, opts)

\* planDeliveryTours from its call to its first await
startPlan(r, req, opts) ==
    LET clients == normalizeClients(req, opts)
        locations == Locations(normalizeCoordinate(req.depot), clients)
        started == [r EXCEPT !.normalizedClients = clients]
    IN  IF requestError(req) # ""
        THEN [r EXCEPT !.pc = "rejected",
                       !.result = [state |-> "rejected", error |-> requestError(req),
                                   unassigned |-> <<>>]]
        ELSE IF matrixTooLarge(locations, opts)
        THEN afterMatrix([started EXCEPT
                             !.ors.degraded = r.ors.degraded \cup {"matrix_skipped"}],
                         matrixWhenTooLarge(locations, opts), req, opts)
        ELSE [started EXCEPT !.pc = "await_matrix", !.ors.matrix = r.ors.matrix + 1]

RunLocations == Locations(normalizeCoordinate(request.depot), normalizedClients)

\* ------------------------------------------------------------------------
\* Actions of a planning run
\* ------------------------------------------------------------------------
\* planDeliveryTours(ors, request, options) is called
PlanStart ==
    /\ pc = "idle"
    /\ Becomes(startPlan(Run, request, options))
    /\ UNCHANGED <<rlVars, toolVars>>

\* ors.matrix resolves
MatrixResolves ==
    /\ pc = "await_matrix"
    /\ \E response \in MatrixResponses(RunLocations) :
         Becomes(afterMatrix(Run, matrixAfterResponse(response, RunLocations, options),
                             request, options))
    /\ UNCHANGED <<rlVars, toolVars>>

\* ors.matrix rejects
MatrixRejects ==
    /\ pc = "await_matrix"
    /\ Becomes(afterMatrix([Run EXCEPT !.ors.degraded = ors.degraded \cup {"matrix_failed"}],
                           matrixAfterFailure(RunLocations, options), request, options))
    /\ UNCHANGED <<rlVars, toolVars>>

\* ors.isochrones resolves for the seed at cursor.iso
IsochroneResolves ==
    /\ pc = "await_isochrones"
    /\ \E response \in IsochroneResponses(normalizedClients[seeds[cursor.iso]].coordinate) :
         Becomes(nextIsochrone([Run EXCEPT !.isoGeometries = Append(isoGeometries, response),
                                           !.cursor.iso = cursor.iso + 1],
                               request, options))
    /\ UNCHANGED <<rlVars, toolVars>>

\* ors.isochrones rejects for the seed at cursor.iso: results[seed.id] = undefined
IsochroneRejects ==
    /\ pc = "await_isochrones"
    /\ Becomes(nextIsochrone([Run EXCEPT !.isoGeometries = Append(isoGeometries, NoGeometry),
                                         !.cursor.iso = cursor.iso + 1,
                                         !.ors.degraded = ors.degraded \cup {"isochrones_failed"}],
                             request, options))
    /\ UNCHANGED <<rlVars, toolVars>>

\* ors.directions resolves
DirectionsResolves ==
    /\ pc \in {"await_directions", "await_directions_again"}
    /\ \E response \in DirectionsResponses(
                          directionsCoordinates(normalizeCoordinate(request.depot), context)) :
         IF pc = "await_directions"
         THEN Becomes(runSeeds(afterDirections(Run, response, request, options),
                               request, options))
         ELSE Becomes(runSeeds(afterDirectionsAgain(Run, response, request, options),
                               request, options))
    /\ UNCHANGED <<rlVars, toolVars>>

\* ors.directions rejects: enrichWithDirections returns undefined
DirectionsRejects ==
    /\ pc \in {"await_directions", "await_directions_again"}
    /\ LET failed == [Run EXCEPT !.ors.degraded = ors.degraded \cup {"directions_failed"}]
       IN  IF pc = "await_directions"
           THEN Becomes(runSeeds(afterDirections(failed, NoGeometry, request, options),
                                 request, options))
           ELSE Becomes(runSeeds(afterDirectionsAgain(failed, NoGeometry, request, options),
                                 request, options))
    /\ UNCHANGED <<rlVars, toolVars>>

\* ------------------------------------------------------------------------
\* planDeliveryToursVRP (src/src/tools/vrpPlanner.ts)
\* ------------------------------------------------------------------------
MaxJobs == 3                    \* request.clients.length is at most this
DEFAULT_PRIORITY_BASE == 60
DEFAULT_PRIORITY_AGE_SCALE == 2
DEFAULT_URGENT_PRIORITY_BOOST == 25
MaxAgeAdjustment == 45          \* Math.min(45, ...)
MaxPriority == 100              \* Math.min(100, priority)
maxVehicles == 3                \* DEFAULT_LIMITS.optimization.maxVehicles

\* The clients a VRP request is made of
VrpClientCatalog ==
    { [id |-> NoId, name |-> "north", coordinate |-> <<0, 1>>, weightKg |-> 1, orderDate |-> 8, urgent |-> FALSE],
      [id |-> "rush", name |-> "rush", coordinate |-> <<0, 2>>, weightKg |-> 2, orderDate |-> 9, urgent |-> TRUE],
      [id |-> NoId, name |-> "empty", coordinate |-> <<0, 1>>, weightKg |-> 0, orderDate |-> 9, urgent |-> FALSE] }

\* truckCapacityKg and desiredTourCount (in halves) of the VRP requests
VrpRequestShapes ==
    { [truckCapacityKg |-> 2, desiredTourCountHalves |-> 2],
      [truckCapacityKg |-> 2, desiredTourCountHalves |-> 6],
      [truckCapacityKg |-> 2, desiredTourCountHalves |-> 8],
      [truckCapacityKg |-> 2, desiredTourCountHalves |-> 10],
      [truckCapacityKg |-> 2, desiredTourCountHalves |-> 3],
      [truckCapacityKg |-> 2, desiredTourCountHalves |-> 0],
      [truckCapacityKg |-> 0, desiredTourCountHalves |-> 2] }

VrpRequests ==
    { [clients |-> cs, truckCapacityKg |-> sh.truckCapacityKg,
       desiredTourCountHalves |-> sh.desiredTourCountHalves, depot |-> <<0, 0>>] :
         cs \in SeqsUpTo(VrpClientCatalog, MaxJobs), sh \in VrpRequestShapes }

W_VehicleLimit(requested, used) ==
    Warning("Requested vehicles but optimization limit is maxVehicles. Using vehicle(s).",
            requested, "")
W_UnassignedBySolver(name) == Warning("Client remains unassigned by the solver.", 0, name)
W_NoRoute(name) == Warning("Client has no assigned route in the solver response.", 0, name)

\* The first error of normalizeClient of the VRP planner for client number index, or ""
vrpClientError(client, index) ==
    IF normalizeCoordinateError(client.coordinate) # "" THEN "Client coordinate"
    ELSE IF ~IsFiniteNumber(client.orderDate) THEN "Invalid orderDate for client."
    ELSE IF ~IsFiniteNumber(client.weightKg) \/ client.weightKg <= 0
    THEN "Client must have a positive weightKg."
    ELSE ""

\* The error planDeliveryToursVRP throws before it calls the service, or ""
vrpRequestError(req) ==
    IF Len(req.clients) = 0 THEN "At least one client is required to plan VRP tours."
    ELSE IF ~IsFiniteNumber(req.truckCapacityKg) \/ req.truckCapacityKg <= 0
    THEN "Truck capacity must be a positive number."
    ELSE IF req.desiredTourCountHalves % 2 # 0 \/ req.desiredTourCountHalves <= 0
    THEN "desiredTourCount must be a positive integer."
    ELSE IF normalizeCoordinateError(req.depot) # "" THEN "Depot coordinate"
    ELSE IF \E i \in 1..Len(req.clients) : vrpClientError(req.clients[i], i) # ""
    THEN vrpClientError(
             req.clients[CHOOSE i \in 1..Len(req.clients) :
                            /\ vrpClientError(req.clients[i], i) # ""
                            /\ \A j \in 1..(i - 1) : vrpClientError(req.clients[j], j) = ""],
             1)
    ELSE ""

\* priority of normalizeClient: base - min(45, round(ageDays * scale)), less the boost of
\* an urgent client, kept within 1..100
vrpPriority(client) ==
    Max(1, Min(MaxPriority,
        DEFAULT_PRIORITY_BASE
          - Min(MaxAgeAdjustment, Max(0, RefDay - client.orderDate) * DEFAULT_PRIORITY_AGE_SCALE)
          - (IF client.urgent THEN DEFAULT_URGENT_PRIORITY_BOOST ELSE 0)))

\* normalizeClient of the VRP planner
vrpNormalizeClient(client, index) ==
    [id |-> resolveId(client, index), name |-> client.name,
     coordinate |-> normalizeCoordinate(client.coordinate),
     weightKg |-> client.weightKg, urgent |-> client.urgent,
     ageDays |-> Max(0, RefDay - client.orderDate),
     matrixIndex |-> index, jobId |-> index,
     weightDemand |-> Max(1, client.weightKg),
     priority |-> vrpPriority(client)]

vrpNormalizeClients(req) ==
    [i \in 1..Len(req.clients) |-> vrpNormalizeClient(req.clients[i], i)]

\* A count of vehicles that is the requested one, whatever the limit.
vehicleCountUnclamped(req) == req.desiredTourCountHalves \div 2

\* vehicleCount = Math.min(requestedVehicleCount, maxVehicles)
vehicleCount(req) == Min(req.desiredTourCountHalves \div 2, maxVehicles)

\* createVehicleDescriptors
createVehicleDescriptors(count, depot, capacityKg) ==
    [i \in 1..count |-> [id |-> i, start |-> depot, end |-> depot,
                         capacity |-> Max(1, capacityKg)]]

\* buildOptimizationRequest
buildOptimizationRequest(clients, vehicles) ==
    [jobs |-> [i \in 1..Len(clients) |->
                 [id |-> clients[i].jobId, name |-> clients[i].name,
                  location |-> clients[i].coordinate, amount |-> clients[i].weightDemand,
                  priority |-> clients[i].priority,
                  skills |-> IF clients[i].urgent THEN <<1>> ELSE <<>>]],
     vehicles |-> vehicles]

\* The warnings before the call: the one about the vehicle limit, or none
vehicleWarnings(req) ==
    IF req.desiredTourCountHalves \div 2 > maxVehicles
    THEN <<W_VehicleLimit(req.desiredTourCountHalves \div 2, vehicleCount(req))>>
    ELSE <<>>

\* ---- the answers of the optimization service ----
\* A step of a route; job and id are Undefined when left out
Step(type, job, id, k) == [type |-> type, job |-> job, id |-> id, distance |-> k * MetresPerKm]

\* Where an answer puts a job: on the first route (as step.job), on the second route
\* (as step.id), among the unassigned, nowhere, or both on the first route and among
\* the unassigned
Placements == {"route1", "route2", "unassigned", "nowhere", "both"}

\* The steps of the route that holds the jobs of the given set, said through job or id
RECURSIVE jobSteps(_, _, _, _)
jobSteps(jobs, n, k, viaId) ==
    IF k > n THEN <<>>
    ELSE IF k \in jobs
    THEN <<IF viaId THEN Step("job", Undefined, k, k) ELSE Step("job", k, Undefined, k)>>
         \o jobSteps(jobs, n, k + 1, viaId)
    ELSE jobSteps(jobs, n, k + 1, viaId)

RouteOf(vehicle, jobs, n, viaId) ==
    [vehicle |-> vehicle, distance |-> (n + 1) * MetresPerKm,
     steps |-> <<Step("start", Undefined, Undefined, 0)>>
               \o jobSteps(jobs, n, 1, viaId)
               \o <<Step("end", Undefined, Undefined, n + 1)>>]

\* The unassigned entries of the jobs of the given set, then one of a job nobody sent
\* when stray holds
RECURSIVE unassignedEntries(_, _, _, _)
unassignedEntries(jobs, n, k, stray) ==
    IF k > n
    THEN IF stray THEN <<[id |-> n + 1, job |-> Undefined]>> ELSE <<>>
    ELSE IF k \in jobs
    THEN <<[id |-> k, job |-> Undefined]>> \o unassignedEntries(jobs, n, k + 1, stray)
    ELSE unassignedEntries(jobs, n, k + 1, stray)

\* The routes of an answer: those of the two vehicles that hold a job
routesOfPlacement(place, n) ==
    (IF \E k \in 1..n : place[k] \in {"route1", "both"}
     THEN <<RouteOf(1, {k \in 1..n : place[k] \in {"route1", "both"}}, n, FALSE)>> ELSE <<>>)
    \o (IF \E k \in 1..n : place[k] = "route2"
        THEN <<RouteOf(2, {k \in 1..n : place[k] = "route2"}, n, TRUE)>> ELSE <<>>)

\* An OptimizationResponseLike: routes and unassigned at the top, or under solution
OptimizationResponse(place, n, stray, nested) ==
    LET routes == routesOfPlacement(place, n)
        unassigned == unassignedEntries({k \in 1..n : place[k] \in {"unassigned", "both"}},
                                        n, 1, stray)
    IN  IF nested
        THEN [routes |-> <<>>, unassigned |-> <<>>,
              solution |-> [routes |-> routes, unassigned |-> unassigned]]
        ELSE [routes |-> routes, unassigned |-> unassigned,
              solution |-> [routes |-> <<>>, unassigned |-> <<>>]]

OptimizationResponses(n) ==
    { OptimizationResponse(place, n, stray, nested) :
        place \in [1..n -> Placements], stray \in BOOLEAN, nested \in BOOLEAN }

NoResponse == [routes |-> <<>>, unassigned |-> <<>>,
               solution |-> [routes |-> <<>>, unassigned |-> <<>>]]

\* ---- reading the answer ----
selectRoutes(response) ==
    IF Len(response.routes) > 0 THEN response.routes
    ELSE IF Len(response.solution.routes) > 0 THEN response.solution.routes
    ELSE <<>>

selectUnassigned(response) ==
    IF Len(response.unassigned) > 0 THEN response.unassigned
    ELSE IF Len(response.solution.unassigned) > 0 THEN response.solution.unassigned
    ELSE <<>>

\* step.job ?? step.id, and !jobId
jobIdOf(entry) == IF entry.job # Undefined THEN entry.job ELSE entry.id
isFalsyJobId(jobId) == jobId = Undefined \/ jobId = 0

\* One turn of the loop of buildStopsFromRoute over the steps, at step number k
stopsFromSteps(steps, k, clients, acc) ==
    IF k > Len(steps) THEN acc
    ELSE IF isFalsyJobId(jobIdOf(steps[k])) \/ jobIdOf(steps[k]) \notin 1..Len(clients)
    THEN [acc EXCEPT !.previousDistance = steps[k].distance, !.k = k + 1]
    ELSE [stops |-> Append(acc.stops,
                       [jobId |-> jobIdOf(steps[k]), id |-> clients[jobIdOf(steps[k])].id,
                        name |-> clients[jobIdOf(steps[k])].name,
                        weightKg |-> clients[jobIdOf(steps[k])].weightKg,
                        position |-> Len(acc.stops) + 1,
                        insertionCostKm |->
                            Max(0, steps[k].distance - acc.previousDistance) \div MetresPerKm]),
          totalWeight |-> acc.totalWeight + clients[jobIdOf(steps[k])].weightKg,
          previousDistance |-> steps[k].distance,
          jobIds |-> Append(acc.jobIds, jobIdOf(steps[k])),
          k |-> k + 1]

\* buildStopsFromRoute: { stops, totalWeight, jobIds }
RECURSIVE stopsLoop(_, _, _)
stopsLoop(steps, clients, acc) ==
    IF acc.k > Len(steps) THEN acc
    ELSE stopsLoop(steps, clients, stopsFromSteps(steps, acc.k, clients, acc))

buildStopsFromRoute(route, clients) ==
    stopsLoop(route.steps, clients,
              [stops |-> <<>>, totalWeight |-> 0, previousDistance |-> 0, jobIds |-> <<>>,
               k |-> 1])

\* The tour pushed for route number t
vrpTour(t, route, built) ==
    [id |-> t, stops |-> built.stops, totalWeightKg |-> built.totalWeight,
     estimatedDistanceKm |-> route.distance \div MetresPerKm, warnings |-> <<>>]

vrpTours(routes, clients) ==
    [t \in 1..Len(routes) |-> vrpTour(t, routes[t], buildStopsFromRoute(routes[t], clients))]

\* assignedJobIds
assignedJobIds(tourList) ==
    UNION {{tourList[t].stops[k].jobId : k \in 1..Len(tourList[t].stops)} :
              t \in 1..Len(tourList)}

\* The loop over the unassigned entries: the job ids of the clients pushed, in order
solverUnassigned(entries, clients) ==
    SelectSeq([k \in 1..Len(entries) |-> jobIdOf(entries[k])],
              LAMBDA jobId : ~isFalsyJobId(jobId) /\ jobId \in 1..Len(clients))

\* A last loop that finds no client without a route.
withoutRouteNone(clients, assigned, listed) == <<>>

\* The loop over normalizedClients: the job ids of the clients neither assigned nor
\* already among the unassigned, in order
withoutRoute(clients, assigned, listed) ==
    SelectSeq([k \in 1..Len(clients) |-> clients[k].jobId],
              LAMBDA jobId : jobId \notin assigned /\ jobId \notin Range(listed))

\* The VRPPlanningResult
vrpResult(req, clients, routes, tourList, listed, missing) ==
    [state |-> "resolved", error |-> "",
     tours |-> tourList,
     unassigned |-> listed \o missing,
     warnings |-> vehicleWarnings(req)
                  \o [k \in 1..Len(listed) |-> W_UnassignedBySolver(clients[listed[k]].name)]
                  \o [k \in 1..Len(missing) |-> W_NoRoute(clients[missing[k]].name)],
     solver |-> [vehiclesRequested |-> req.desiredTourCountHalves \div 2,
                 vehiclesUsed |-> Len(routes)]]

vrpResultOf(req, clients, routes, tourList, listed) ==
    vrpResult(req, clients, routes, tourList, listed,
              withoutRoute(clients, assignedJobIds(tourList), listed))

\* planDeliveryToursVRP after the service answered
vrpAfterResponse(req, clients, response) ==
    vrpResultOf(req, clients, selectRoutes(response),
                vrpTours(selectRoutes(response), clients),
                solverUnassigned(selectUnassigned(response), clients))

NoPayload == [jobs |-> <<>>, vehicles |-> <<>>]
VrpPending == [state |-> "pending", error |-> "", tours |-> <<>>, unassigned |-> <<>>,
               warnings |-> <<>>, solver |-> [vehiclesRequested |-> 0, vehiclesUsed |-> 0]]
VrpRejected(error) == [VrpPending EXCEPT !.state = "rejected", !.error = error]

\* A VRP run that has not started, for the request req
VrpIdleRun(req) ==
    [pc |-> "idle", request |-> req, clients |-> <<>>, payload |-> NoPayload, calls |-> 0,
     response |-> NoResponse, result |-> VrpPending]

\* planDeliveryToursVRP(ors, request) is called: it throws, or calls ors.optimization
VrpStart ==
    /\ vrp.pc = "idle"
    /\ vrp' = IF vrpRequestError(vrp.request) # ""
              THEN [vrp EXCEPT !.pc = "rejected",
                               !.result = VrpRejected(vrpRequestError(vrp.request))]
              ELSE [vrp EXCEPT !.pc = "await_optimization",
                               !.clients = vrpNormalizeClients(vrp.request),
                               !.payload = buildOptimizationRequest(
                                   vrpNormalizeClients(vrp.request),
                                   createVehicleDescriptors(vehicleCount(vrp.request),
                                       normalizeCoordinate(vrp.request.depot),
                                       vrp.request.truckCapacityKg)),
                               !.calls = vrp.calls + 1]
    /\ UNCHANGED notVrpVars

\* ors.optimization resolves
VrpOptimizationResolves ==
    /\ vrp.pc = "await_optimization"
    /\ \E response \in OptimizationResponses(Len(vrp.clients)) :
         vrp' = [vrp EXCEPT !.pc = "done", !.response = response,
                            !.result = vrpAfterResponse(vrp.request, vrp.clients, response)]
    /\ UNCHANGED notVrpVars

\* ors.optimization rejects: the error is wrapped and thrown
VrpOptimizationRejects ==
    /\ vrp.pc = "await_optimization"
    /\ vrp' = [vrp EXCEPT !.pc = "rejected",
                          !.result = VrpRejected("ORS optimization failed")]
    /\ UNCHANGED notVrpVars

\* ------------------------------------------------------------------------
\* geocodeTownZipLookup (src/unnamed/part_004, tools/geocode.ts)
\* ------------------------------------------------------------------------
NoText == "<undefined>"         \* a string left out (undefined)

\* String.prototype.trim, toUpperCase, toLowerCase on the strings of the model
trim(value) ==
    CASE value = " Nice " -> "Nice"
      [] value = "   " -> ""
      [] value = " 06000" -> "06000"
      [] OTHER -> value

toUpperCase(value) == CASE value = "fr" -> "FR" [] OTHER -> value

toLowerCase(value) ==
    CASE value = "Nice" -> "nice"
      [] value = "Saint Paul" -> "saint paul"
      [] value = "NICE Centre" -> "nice centre"
      [] value = "Saint Paul de Vence" -> "saint paul de vence"
      [] value = "Paris" -> "paris"
      [] OTHER -> value

\* value.includes(part) for lower-case strings of the model
includes(value, part) ==
    \/ value = part
    \/ <<value, part>> \in {<<"nice centre", "nice">>, <<"saint paul de vence", "saint paul">>}

\* normalizeLookupInput
normalizeLookupInput(value) ==
    IF value = NoText THEN NoText
    ELSE IF trim(value) = "" THEN NoText
    ELSE trim(value)

\* getTownPrefix: the first three letters of the first word
getTownPrefix(town) ==
    CASE normalizeLookupInput(town) = NoText -> ""
      [] normalizeLookupInput(town) = "Nice" -> "Nic"
      [] normalizeLookupInput(town) = "Saint Paul" -> "Sai"
      [] OTHER -> normalizeLookupInput(town)

\* The queries of the model
LookupQueries ==
    { [town |-> town, zip |-> zip, countryCode |-> cc,
       structuredSize |-> sizes[1], autocompleteSize |-> sizes[2]] :
        town \in {NoText, "", "   ", " Nice ", "Saint Paul"},
        zip \in {NoText, "   ", "06000", " 06000"},
        cc \in {NoText, "fr"},
        sizes \in {<<Undefined, Undefined>>, <<4, 3>>, <<0, -1>>} }

\* GeocodeFeature values
PointFeature(lon, lat, label) ==
    [geometry |-> [type |-> "Point", coordinates |-> <<lon, lat>>],
     properties |-> [label |-> label]]
OtherFeature(type) ==
    [geometry |-> [type |-> type, coordinates |-> <<>>], properties |-> [label |-> "Paris"]]
NoFeature == OtherFeature("undefined")

\* GeocodeResponse values a geocoding call resolves with: null, one without features,
\* and feature lists with polygons, features without geometry, points without a
\* finite position and points
GeocodeResponses ==
    { [kind |-> "null", features |-> <<>>],
      [kind |-> "no_features", features |-> <<>>] }
    \cup
    { [kind |-> "features", features |-> fs] :
        fs \in { <<>>,
                 <<OtherFeature("Polygon")>>,
                 <<PointFeature(NaN, 43, "Nice")>>,
                 <<PointFeature(7, 43, "Paris")>>,
                 <<OtherFeature("Polygon"), PointFeature(8, 44, "NICE Centre")>>,
                 <<PointFeature(7, 43, "Paris"), PointFeature(8, 44, "NICE Centre")>>,
                 <<PointFeature(NaN, 43, "Nice"), PointFeature(9, 45, "Saint Paul de Vence"),
                   PointFeature(7, 43, "Paris")>>,
                 <<NoFeature, PointFeature(7, 43, "Paris")>> } }

NoMatch == [found |-> FALSE, feature |-> NoFeature, coordinates |-> <<>>]
Match(feature) == [found |-> TRUE, feature |-> feature,
                   coordinates |-> feature.geometry.coordinates]

\* A feature with a Point geometry of finite position
isUsablePoint(feature) ==
    /\ feature.geometry.type = "Point"
    /\ Len(feature.geometry.coordinates) >= 2
    /\ IsFiniteNumber(feature.geometry.coordinates[1])
    /\ IsFiniteNumber(feature.geometry.coordinates[2])

\* The first feature of the list, from place k on, that the test accepts
firstUsable(features, usable) ==
    IF \E k \in 1..Len(features) : usable[k]
    THEN Match(features[CHOOSE k \in 1..Len(features) :
                           usable[k] /\ \A j \in 1..(k - 1) : ~usable[j]])
    ELSE NoMatch

\* findFirstPointFeature
findFirstPointFeature(response) ==
    IF response.kind # "features" THEN NoMatch
    ELSE firstUsable(response.features,
             [k \in 1..Len(response.features) |-> isUsablePoint(response.features[k])])

\* featureContainsTown, on the label
featureContainsTown(feature, normalizedTown) ==
    /\ normalizedTown # ""
    /\ includes(toLowerCase(feature.properties.label), normalizedTown)

\* pickAutocompleteMatch
pickAutocompleteMatch(response, town) ==
    IF response.kind = "null" THEN NoMatch
    ELSE IF /\ normalizeLookupInput(town) # NoText
            /\ \E k \in 1..Len(response.features) :
                  /\ isUsablePoint(response.features[k])
                  /\ featureContainsTown(response.features[k],
                                         toLowerCase(normalizeLookupInput(town)))
    THEN firstUsable(response.features,
             [k \in 1..Len(response.features) |->
                 /\ isUsablePoint(response.features[k])
                 /\ featureContainsTown(response.features[k],
                                        toLowerCase(normalizeLookupInput(town)))])
    ELSE findFirstPointFeature(response)

\* The normalized inputs of a query
lookupTown(query) == normalizeLookupInput(query.town)
lookupZip(query) == normalizeLookupInput(query.zip)
lookupCountry(query) ==
    IF normalizeLookupInput(query.countryCode) = NoText THEN NoText
    ELSE toUpperCase(normalizeLookupInput(query.countryCode))
sizeOrUndefined(size) == IF IsNumber(size) /\ size > 0 THEN size ELSE Undefined

\* GeocodeCommonParams of the three requests; a key left out holds NoText or Undefined
NoParams ==
    [postalcode |-> NoText, locality |-> NoText, country |-> NoText, size |-> Undefined,
     text |-> NoText, focusLat |-> Undefined, focusLon |-> Undefined,
     boundaryCountry |-> NoText]

\* buildStructuredParams
buildStructuredParams(query, postalcode, locality) ==
    [NoParams EXCEPT !.postalcode = postalcode, !.locality = locality,
                     !.country = lookupCountry(query),
                     !.size = sizeOrUndefined(query.structuredSize)]

autocompleteParams(query, match) ==
    [NoParams EXCEPT !.text = getTownPrefix(lookupTown(query)),
                     !.size = sizeOrUndefined(query.autocompleteSize),
                     !.focusLat = match.coordinates[2],
                     !.focusLon = match.coordinates[1],
                     !.boundaryCountry = lookupCountry(query)]

\* attempts.push({ stage, params, feature, coordinates, error })
Attempt(stage, params, match, failed) ==
    [stage |-> stage, params |-> params, feature |-> match.feature,
     coordinates |-> match.coordinates, error |-> failed]

LookupPending == [state |-> "pending", stage |-> "", feature |-> NoFeature,
                  coordinates |-> <<>>, attempts |-> <<>>]

\* A lookup that has not started, for the query.  requests and responses are the calls
\* the ORS collaborator received and how each of them settled, in order.
IdleLookup(query) ==
    [pc |-> "idle", query |-> query, attempts |-> <<>>, requests |-> <<>>,
     responses |-> <<>>, structuredPostalMatch |-> NoMatch, result |-> LookupPending]

\* return { stage, feature, coordinates, attempts }
lookupReturns(l, stage, match) ==
    [l EXCEPT !.pc = "done",
              !.result = [state |-> "resolved", stage |-> stage, feature |-> match.feature,
                          coordinates |-> match.coordinates, attempts |-> l.attempts]]

\* The call of an endpoint: the request goes out and the function awaits
lookupCalls(l, pcAfter, endpoint, params) ==
    [l EXCEPT !.pc = pcAfter,
              !.requests = Append(l.requests, [endpoint |-> endpoint, params |-> params])]

\* The end of the function: the postal match, or not_found
finishLookup(l) ==
    IF l.structuredPostalMatch.found
    THEN lookupReturns(l, "structured_postal", l.structuredPostalMatch)
    ELSE lookupReturns(l, "not_found", NoMatch)

\* A third stage that is entered whether or not the postal stage found a match.
beginAutocompleteWithoutMatch(l) ==
    IF lookupTown(l.query) # NoText /\ getTownPrefix(lookupTown(l.query)) # ""
    THEN lookupCalls(l, "await_autocomplete", "autocomplete",
                     autocompleteParams(l.query,
                         IF l.structuredPostalMatch.found THEN l.structuredPostalMatch
                         ELSE [NoMatch EXCEPT !.coordinates = <<Undefined, Undefined>>]))
    ELSE finishLookup(l)

\* if (structuredPostalMatch && town): the autocomplete stage, or the end
beginAutocomplete(l) ==
    IF /\ l.structuredPostalMatch.found
       /\ lookupTown(l.query) # NoText
       /\ getTownPrefix(lookupTown(l.query)) # ""
    THEN lookupCalls(l, "await_autocomplete", "autocomplete",
                     autocompleteParams(l.query, l.structuredPostalMatch))
    ELSE finishLookup(l)

\* if (zip): the postal code stage, or what follows it
beginPostal(l) ==
    IF lookupZip(l.query) # NoText
    THEN lookupCalls(l, "await_structured_postal", "structured",
                     buildStructuredParams(l.query, lookupZip(l.query), NoText))
    ELSE beginAutocomplete(l)

\* A first check that lets a query without zip and town through.
lookupStartsUnchecked(l) ==
    IF lookupZip(l.query) # NoText /\ lookupTown(l.query) # NoText
    THEN lookupCalls(l, "await_structured_postal_locality", "structured",
                     buildStructuredParams(l.query, lookupZip(l.query), lookupTown(l.query)))
    ELSE beginPostal(l)

\* geocodeTownZipLookup from its call to its first await, return or throw
lookupStarts(l) ==
    IF lookupZip(l.query) = NoText /\ lookupTown(l.query) = NoText
    THEN [l EXCEPT !.pc = "rejected",
                   !.result = [LookupPending EXCEPT !.state = "rejected"]]
    ELSE IF lookupZip(l.query) # NoText /\ lookupTown(l.query) # NoText
    THEN lookupCalls(l, "await_structured_postal_locality", "structured",
                     buildStructuredParams(l.query, lookupZip(l.query), lookupTown(l.query)))
    ELSE beginPostal(l)

\* A first stage that goes on to the postal code stage even with a match.
afterPostalLocalityGoesOn(l, stageMatch, failed) ==
    beginPostal([l EXCEPT !.attempts =
                     Append(l.attempts,
                            Attempt("structured_postal_locality", l.requests[Len(l.requests)].params,
                                    stageMatch, failed))])

\* After the first structured request settled with stageMatch (NoMatch when it threw)
afterPostalLocality(l, stageMatch, failed) ==
    IF stageMatch.found
    THEN lookupReturns(
             [l EXCEPT !.attempts =
                 Append(l.attempts,
                        Attempt("structured_postal_locality", l.requests[Len(l.requests)].params,
                                stageMatch, failed))],
             "structured_postal_locality", stageMatch)
    ELSE beginPostal(
             [l EXCEPT !.attempts =
                 Append(l.attempts,
                        Attempt("structured_postal_locality", l.requests[Len(l.requests)].params,
                                stageMatch, failed))])

\* After the postal code request settled with the match
afterPostal(l, match, failed) ==
    IF match.found /\ lookupTown(l.query) = NoText
    THEN lookupReturns(
             [l EXCEPT !.structuredPostalMatch = match,
                       !.attempts =
                           Append(l.attempts,
                                  Attempt("structured_postal", l.requests[Len(l.requests)].params,
                                          match, failed))],
             "structured_postal", match)
    ELSE beginAutocomplete(
             [l EXCEPT !.structuredPostalMatch = match,
                       !.attempts =
                           Append(l.attempts,
                                  Attempt("structured_postal", l.requests[Len(l.requests)].params,
                                          match, failed))])

\* After the autocomplete request settled with autoMatch
afterAutocomplete(l, autoMatch, failed) ==
    IF autoMatch.found
    THEN lookupReturns(
             [l EXCEPT !.attempts =
                 Append(l.attempts,
                        Attempt("autocomplete", l.requests[Len(l.requests)].params,
                                autoMatch, failed))],
             "autocomplete", autoMatch)
    ELSE finishLookup(
             [l EXCEPT !.attempts =
                 Append(l.attempts,
                        Attempt("autocomplete", l.requests[Len(l.requests)].params,
                                autoMatch, failed))])

\* A lookup that lets the error of a failed request through to its caller.
lookupGoesOnOrThrows(l, structuredMatch, autoMatch, failed) ==
    IF failed
    THEN [l EXCEPT !.pc = "rejected", !.result = [LookupPending EXCEPT !.state = "rejected"]]
    ELSE IF l.pc = "await_structured_postal_locality"
    THEN afterPostalLocality(l, structuredMatch, failed)
    ELSE IF l.pc = "await_structured_postal"
    THEN afterPostal(l, structuredMatch, failed)
    ELSE afterAutocomplete(l, autoMatch, failed)

\* What follows the await the lookup is at, the call having settled with the match
lookupGoesOn(l, structuredMatch, autoMatch, failed) ==
    IF l.pc = "await_structured_postal_locality"
    THEN afterPostalLocality(l, structuredMatch, failed)
    ELSE IF l.pc = "await_structured_postal"
    THEN afterPostal(l, structuredMatch, failed)
    ELSE afterAutocomplete(l, autoMatch, failed)

LookupAwaits ==
    {"await_structured_postal_locality", "await_structured_postal", "await_autocomplete"}

\* geocodeTownZipLookup(ors, query) is called
LookupStart ==
    /\ lookup.pc = "idle"
    /\ lookup' = lookupStarts(lookup)
    /\ UNCHANGED notLookupVars

\* ors.geocodeStructured or ors.geocodeAutocomplete resolves
GeocodeResolves ==
    /\ lookup.pc \in LookupAwaits
    /\ \E response \in GeocodeResponses :
         lookup' = lookupGoesOn([lookup EXCEPT !.responses = Append(lookup.responses, response)],
                                findFirstPointFeature(response),
                                pickAutocompleteMatch(response, lookupTown(lookup.query)),
                                FALSE)
    /\ UNCHANGED notLookupVars

\* ors.geocodeStructured or ors.geocodeAutocomplete rejects: the stage records the error
GeocodeRejects ==
    /\ lookup.pc \in LookupAwaits
    /\ lookup' = lookupGoesOn(
                     [lookup EXCEPT !.responses =
                         Append(lookup.responses, [kind |-> "error", features |-> <<>>])],
                     NoMatch, NoMatch, TRUE)
    /\ UNCHANGED notLookupVars

\* ------------------------------------------------------------------------
\* ORS client (src/unnamed/part_000, ors.ts): pre-flight validation and runRequest
\* ------------------------------------------------------------------------
\* A request is described by what the validators measure of it: the length of an array
\* (Undefined when the field is left out), the kilometres pathLengthKm, bboxAreaKm2,
\* featureCollectionAreaKm2 and linestringLengthKm compute from its geometry, and the
\* numbers it carries.
MaxCalls == 2                   \* endpoint calls in one behaviour
MetresPerKilometre == 1000      \* metersToKilometers
SecondsPerHour == 3600

\* this.limits: DEFAULT_LIMITS of constants.ts, no override
ClientLimits ==
    [directions |->
        [maxWaypoints |-> 50, maxAvoidPolygonAreaKm2 |-> 200, maxAvoidPolygonExtentKm |-> 20,
         maxAlternativeRoutes |-> 3, maxRoundTripDistanceKm |-> 100,
         maxDistanceKmByGroup |->
             [driving |-> 6000, cycling |-> 6000, foot |-> 6000, wheelchair |-> 6000],
         maxRestrictedDistanceKmByGroup |->
             [driving |-> 150, cycling |-> 150, foot |-> 150, wheelchair |-> 300]],
     isochrones |->
        [maxLocations |-> 5, maxIntervals |-> 10, maxRangeDistanceKm |-> 120,
         maxRangeTimeHoursByGroup |-> [driving |-> 1, cycling |-> 5, foot |-> 20]],
     matrix |-> [maxLocationsProduct |-> 3500, maxDynamicLocations |-> 25],
     snap |-> [maxLocations |-> 5000],
     pois |-> [maxBboxAreaKm2 |-> 50, maxLinestringLengthKm |-> 500, maxSearchRadiusKm |-> 2],
     elevation |-> [maxVertices |-> 2000],
     optimization |-> [maxRoutes |-> 50, maxVehicles |-> 3]]

\* getProfileGroup, for the profiles of the model
getProfileGroup(profile) ==
    CASE profile \in {"driving-car", "driving-hgv"} -> "driving"
      [] profile = "cycling-regular" -> "cycling"
      [] profile = "foot-walking" -> "foot"
      [] profile = "wheelchair" -> "wheelchair"

\* ensureProfile, the client having no defaultProfile: the error, or ""
ensureProfileError(profile) == IF profile = NoText THEN "A profile is required." ELSE ""

IsLeftOut(x) == x = Undefined

\* validateDirections: the error thrown, or ""
validateDirections(profile, req) ==
    IF IsLeftOut(req.coordinates) \/ req.coordinates < 2
    THEN "Directions request requires at least two coordinates."
    ELSE IF req.coordinates > ClientLimits.directions.maxWaypoints
    THEN "Directions request exceeds waypoints limit."
    ELSE IF /\ req.restrictions
            /\ req.pathLengthKm
                 > ClientLimits.directions.maxRestrictedDistanceKmByGroup[getProfileGroup(profile)]
    THEN "Directions with profile restrictions are limited."
    ELSE IF /\ ~IsLeftOut(req.roundTripLengthM)
            /\ req.roundTripLengthM
                 > ClientLimits.directions.maxRoundTripDistanceKm * MetresPerKilometre
    THEN "Round trip length exceeds limit."
    ELSE IF /\ ~IsLeftOut(req.targetCount)
            /\ req.targetCount > ClientLimits.directions.maxAlternativeRoutes
    THEN "Alternative routes target_count cannot exceed limit."
    ELSE IF /\ ~IsLeftOut(req.avoidAreaKm2)
            /\ req.avoidAreaKm2 > ClientLimits.directions.maxAvoidPolygonAreaKm2
    THEN "Avoid areas exceed limit."
    ELSE IF /\ ~IsLeftOut(req.avoidAreaKm2)
            /\ req.avoidExtentKm > ClientLimits.directions.maxAvoidPolygonExtentKm
    THEN "Avoid polygon extent exceeds limit."
    ELSE ""

\* validateIsochrones: the error thrown, or "".  range is the number of range values
\* and rangeMax the largest of them (seconds, metres, or kilometres with units km)
validateIsochrones(profile, req) ==
    IF IsLeftOut(req.locations) \/ req.locations = 0
    THEN "Isochrone request requires at least one location."
    ELSE IF req.locations > ClientLimits.isochrones.maxLocations
    THEN "Isochrones request exceeds locations limit."
    ELSE IF IsLeftOut(req.range) \/ req.range = 0
    THEN "Isochrone request requires at least one range value."
    ELSE IF req.range > ClientLimits.isochrones.maxIntervals
    THEN "Isochrones request exceeds range intervals limit."
    ELSE IF getProfileGroup(profile) = "wheelchair"
    THEN "Wheelchair profile is not supported for isochrone requests."
    ELSE IF /\ req.rangeType = "distance"
            /\ (IF req.units = "km" THEN req.rangeMax * MetresPerKilometre ELSE req.rangeMax)
                 > ClientLimits.isochrones.maxRangeDistanceKm * MetresPerKilometre
    THEN "Isochrone distance range exceeds limit."
    ELSE IF /\ req.rangeType # "distance"
            /\ req.rangeMax
                 > ClientLimits.isochrones.maxRangeTimeHoursByGroup[getProfileGroup(profile)]
                     * SecondsPerHour
    THEN "Isochrone time range exceeds hours."
    ELSE ""

\* request.sources and request.destinations: left out, the string "all", or an array
SideLeftOut == [kind |-> "undefined", length |-> 0]
SideAll == [kind |-> "all", length |-> 0]
SideArray(n) == [kind |-> "array", length |-> n]

\* sourcesCount and destinationsCount of validateMatrix
matrixSideCount(side, totalLocations) ==
    IF side.kind = "array" THEN side.length ELSE totalLocations

\* validateMatrix: the error thrown, or ""
validateMatrix(req) ==
    IF IsLeftOut(req.locations) \/ req.locations = 0
    THEN "Matrix request requires at least one location."
    ELSE IF matrixSideCount(req.sources, req.locations)
              * matrixSideCount(req.destinations, req.locations)
                > ClientLimits.matrix.maxLocationsProduct
    THEN "Matrix request exceeds cell limit."
    ELSE IF /\ (req.sources.kind = "all" \/ req.destinations.kind = "all")
            /\ matrixSideCount(req.sources, req.locations)
                 * matrixSideCount(req.destinations, req.locations)
                   > ClientLimits.matrix.maxDynamicLocations
    THEN "Matrix requests with dynamic sources/destinations cannot exceed limit."
    ELSE ""

\* validateSnap
validateSnap(req) ==
    IF IsLeftOut(req.locations) \/ req.locations = 0
    THEN "Snap request requires at least one location."
    ELSE IF req.locations > ClientLimits.snap.maxLocations
    THEN "Snap request exceeds coordinate limit."
    ELSE ""

\* validatePois.  geometry is "undefined" or the key the geometry carries: bbox,
\* radius, or geojson (a polygon or a linestring)
validatePois(req) ==
    IF req.geometry = "undefined" THEN "POIs request requires geometry definition."
    ELSE IF /\ req.request = "bbox" /\ req.geometry = "bbox"
            /\ req.areaKm2 > ClientLimits.pois.maxBboxAreaKm2
    THEN "POIs bbox area exceeds limit."
    ELSE IF /\ req.request = "radius" /\ req.geometry = "radius"
            /\ req.radiusM > ClientLimits.pois.maxSearchRadiusKm * MetresPerKilometre
    THEN "POIs radius exceeds limit."
    ELSE IF /\ req.geometry \in {"polygon", "linestring"}
            /\ req.areaKm2 > ClientLimits.pois.maxBboxAreaKm2
    THEN "POIs polygon area exceeds limit."
    ELSE IF /\ req.geometry \in {"polygon", "linestring"}
            /\ req.bboxAreaKm2 > ClientLimits.pois.maxBboxAreaKm2
    THEN "POIs search area exceeds limit."
    ELSE IF /\ req.geometry = "linestring"
            /\ req.lengthKm > ClientLimits.pois.maxLinestringLengthKm
    THEN "POIs linestring length exceeds limit."
    ELSE ""

\* validateElevationPoint
validateElevationPoint(req) ==
    IF req.geometry = "undefined" THEN "Elevation point request requires geometry." ELSE ""

\* validateElevationLine: vertices is the number of coordinates of a LineString
validateElevationLine(req) ==
    IF req.geometry = "undefined" THEN "Elevation line request requires geometry."
    ELSE IF req.geometry = "linestring" /\ req.vertices > ClientLimits.elevation.maxVertices
    THEN "Elevation line requests cannot exceed vertices."
    ELSE ""

\* validateOptimization
validateOptimization(req) ==
    IF IsLeftOut(req.jobs) \/ req.jobs = 0
    THEN "Optimization request requires at least one job."
    ELSE IF req.jobs > ClientLimits.optimization.maxRoutes
    THEN "Optimization request exceeds jobs limit."
    ELSE IF IsLeftOut(req.vehicles) \/ req.vehicles = 0
    THEN "Optimization request requires at least one vehicle."
    ELSE IF req.vehicles > ClientLimits.optimization.maxVehicles
    THEN "Optimization request exceeds vehicles limit."
    ELSE ""

\* What an endpoint method throws before it reaches runRequest, or ""
preflightError(endpoint, profile, req) ==
    CASE endpoint = "directions" ->
             IF ensureProfileError(profile) # "" THEN ensureProfileError(profile)
             ELSE validateDirections(profile, req)
      [] endpoint = "isochrones" ->
             IF profile = NoText THEN "An isochrone profile is required."
             ELSE validateIsochrones(profile, req)
      [] endpoint = "matrix" ->
             IF ensureProfileError(profile) # "" THEN ensureProfileError(profile)
             ELSE validateMatrix(req)
      [] endpoint = "snap" ->
             IF ensureProfileError(profile) # "" THEN ensureProfileError(profile)
             ELSE validateSnap(req)
      [] endpoint = "pois" -> validatePois(req)
      [] endpoint = "elevationPoint" -> validateElevationPoint(req)
      [] endpoint = "elevationLine" -> validateElevationLine(req)
      [] endpoint = "optimization" -> validateOptimization(req)

\* ---- the requests of the model ----
DirectionsBase ==
    [coordinates |-> 2, pathLengthKm |-> 10, restrictions |-> FALSE,
     roundTripLengthM |-> Undefined, targetCount |-> Undefined,
     avoidAreaKm2 |-> Undefined, avoidExtentKm |-> 0]

DirectionsRequests ==
    { DirectionsBase,
      [DirectionsBase EXCEPT !.coordinates = Undefined],
      [DirectionsBase EXCEPT !.coordinates = 1],
      [DirectionsBase EXCEPT !.coordinates = 51],
      [DirectionsBase EXCEPT !.restrictions = TRUE, !.pathLengthKm = 151],
      [DirectionsBase EXCEPT !.roundTripLengthM = 100001],
      [DirectionsBase EXCEPT !.targetCount = 4],
      [DirectionsBase EXCEPT !.avoidAreaKm2 = 201],
      [DirectionsBase EXCEPT !.avoidAreaKm2 = 10, !.avoidExtentKm = 21],
      [DirectionsBase EXCEPT !.coordinates = 3, !.pathLengthKm = 6001] }

IsochronesBase ==
    [locations |-> 1, range |-> 1, rangeMax |-> 600, rangeType |-> "time", units |-> "m"]

IsochronesRequests ==
    { IsochronesBase,
      [IsochronesBase EXCEPT !.locations = Undefined],
      [IsochronesBase EXCEPT !.locations = 6],
      [IsochronesBase EXCEPT !.range = 0],
      [IsochronesBase EXCEPT !.range = 11, !.rangeMax = 3000],
      [IsochronesBase EXCEPT !.rangeMax = 3601],
      [IsochronesBase EXCEPT !.rangeType = "distance", !.units = "km", !.rangeMax = 121],
      [IsochronesBase EXCEPT !.rangeType = "distance", !.rangeMax = 5000] }

MatrixRequests ==
    { [locations |-> 3, sources |-> SideLeftOut, destinations |-> SideLeftOut],
      [locations |-> Undefined, sources |-> SideLeftOut, destinations |-> SideLeftOut],
      [locations |-> 60, sources |-> SideLeftOut, destinations |-> SideLeftOut],
      [locations |-> 60, sources |-> SideArray(2), destinations |-> SideLeftOut],
      [locations |-> 6, sources |-> SideAll, destinations |-> SideLeftOut],
      [locations |-> 5, sources |-> SideAll, destinations |-> SideAll] }

SnapRequests == { [locations |-> 2], [locations |-> 0], [locations |-> 5001] }

PoisBase ==
    [request |-> "bbox", geometry |-> "bbox", areaKm2 |-> 10, bboxAreaKm2 |-> 10,
     radiusM |-> 0, lengthKm |-> 0]

PoisRequests ==
    { PoisBase,
      [PoisBase EXCEPT !.geometry = "undefined"],
      [PoisBase EXCEPT !.areaKm2 = 51, !.bboxAreaKm2 = 51],
      [PoisBase EXCEPT !.request = "radius", !.geometry = "radius", !.radiusM = 2001],
      [PoisBase EXCEPT !.request = "polygon", !.geometry = "polygon", !.areaKm2 = 51,
                       !.bboxAreaKm2 = 60],
      [PoisBase EXCEPT !.request = "polygon", !.geometry = "polygon", !.areaKm2 = 40,
                       !.bboxAreaKm2 = 51],
      [PoisBase EXCEPT !.request = "polygon", !.geometry = "linestring", !.areaKm2 = 0,
                       !.bboxAreaKm2 = 0, !.lengthKm = 501] }

ElevationPointRequests == { [geometry |-> "point"], [geometry |-> "undefined"] }

ElevationLineRequests ==
    { [geometry |-> "linestring", vertices |-> 100],
      [geometry |-> "undefined", vertices |-> 0],
      [geometry |-> "linestring", vertices |-> 2001],
      [geometry |-> "polygon", vertices |-> 0] }

OptimizationRequests ==
    { [jobs |-> 2, vehicles |-> 1],
      [jobs |-> Undefined, vehicles |-> 1],
      [jobs |-> 51, vehicles |-> 1],
      [jobs |-> 2, vehicles |-> 0],
      [jobs |-> 2, vehicles |-> 4] }

ProfilesOf(endpoint) ==
    CASE endpoint = "directions" -> {"driving-car", "wheelchair", NoText}
      [] endpoint = "isochrones" -> {"driving-car", "wheelchair", NoText}
      [] endpoint \in {"matrix", "snap"} -> {"driving-car", NoText}
      [] OTHER -> {NoText}

\* ---- runRequest ----
\* The record of one call of an endpoint method: error is what the method threw before
\* runRequest ("" when it reached it), task the number of the task runRequest handed to
\* rateLimiter.schedule (0 when none), direct whether execute() ran without a limiter
Call(endpoint, profile, req, error, task, direct) ==
    [endpoint |-> endpoint, profile |-> profile, request |-> req, error |-> error,
     task |-> task, direct |-> direct]

NoCall == Call("none", NoText, <<>>, "", 0, FALSE)

\* The limiter after schedule(execute) at time t for task number id
scheduleLimiter(l, t, id) ==
    IF scheduleRunsNow(refillTokens(l, t))
    THEN [refillTokens(l, t) EXCEPT !.tokens = refillTokens(l, t).tokens - 1]
    ELSE ensureProcessingScheduled(
             [refillTokens(l, t) EXCEPT !.queue = Append(refillTokens(l, t).queue, id)], t)

\* The client after one more call of an endpoint method
called(c, call) == [c EXCEPT !.calls = c.calls + 1, !.last = call]

\* An endpoint method is called: it throws before runRequest, or runRequest executes
\* the HTTP request at once (no limiter) or hands it to rateLimiter.schedule
OrsCall(endpoint, requests) ==
    /\ orsClient.calls < MaxCalls
    /\ \E req \in requests, profile \in ProfilesOf(endpoint), outcome \in TaskOutcomes :
         IF preflightError(endpoint, profile, req) # ""
         THEN /\ orsClient' = called(orsClient,
                                    Call(endpoint, profile, req,
                                         preflightError(endpoint, profile, req), 0, FALSE))
              /\ UNCHANGED <<limiter, tasks>>
         ELSE IF ~orsClient.rateLimiter
         THEN /\ orsClient' = called(orsClient, Call(endpoint, profile, req, "", 0, TRUE))
              /\ UNCHANGED <<limiter, tasks>>
         ELSE /\ orsClient' = called(orsClient,
                                    Call(endpoint, profile, req, "", Len(tasks) + 1, FALSE))
              /\ limiter' = scheduleLimiter(limiter, now, Len(tasks) + 1)
              /\ tasks' = Append(tasks,
                              NewTask(Len(tasks) + 1, outcome, refillTokens(limiter, now), now,
                                      scheduleRunsNow(refillTokens(limiter, now))))
    /\ UNCHANGED <<now, planVars, vrp, lookup, proximityCall>>

Directions == OrsCall("directions", DirectionsRequests)
Isochrones == OrsCall("isochrones", IsochronesRequests)
Matrix == OrsCall("matrix", MatrixRequests)
Snap == OrsCall("snap", SnapRequests)
Pois == OrsCall("pois", PoisRequests)
ElevationPoint == OrsCall("elevationPoint", ElevationPointRequests)
ElevationLine == OrsCall("elevationLine", ElevationLineRequests)
Optimization == OrsCall("optimization", OptimizationRequests)

\* ------------------------------------------------------------------------
\* Route proximity helpers called on their own
\* ------------------------------------------------------------------------
\* Values that are no GeoJSON object
NullValue == [type |-> "null"]
StringValue == [type |-> "string"]      \* a non-empty string
ArrayValue == [type |-> "array"]        \* an array: an object without a type

MultiLineString(lines) == [type |-> "MultiLineString", coordinates |-> lines]
GeometryCollection(geometries) == [type |-> "GeometryCollection", geometries |-> geometries]
PointGeometry(lat) == [type |-> "Point", coordinates |-> <<0, lat>>]

\* Lines along the meridian: good has two finite positions, withAltitude carries a third
\* member in each, oneFinite and noneFinite lose positions to sanitizeCoordinate
GoodLine == <<<<0, 0>>, <<0, 1>>>>
LineWithAltitude == <<<<0, 0, 5>>, <<0, 1, 5>>>>
LineWithGap == <<<<0, 0>>, <<0, NaN>>, <<0, 1>>>>
LineOneFinite == <<<<0, 0>>, <<0, NaN>>, <<Infinity, 1>>, <<0>>>>
LineNoneFinite == <<<<0, Undefined>>, <<NaN, NaN>>>>
\* Lines away from the depot: northwards, southwards in two segments, and of no length
LineNorthwards == <<<<0, 2>>, <<0, 4>>>>
LineSouthwards == <<<<0, 4>>, <<0, 3>>, <<0, 2>>>>
LineOfNoLength == <<<<0, 3>>, <<0, 3>>>>

ProximityRoutes ==
    { NoGeometry, NullValue, StringValue, ArrayValue,
      PointGeometry(1),
      LineString(GoodLine), LineString(LineWithAltitude), LineString(LineWithGap),
      LineString(LineOneFinite), LineString(LineNoneFinite), LineString(<<>>),
      LineString(<<<<0, 1>>>>),
      MultiLineString(<<LineOneFinite, GoodLine>>),
      MultiLineString(<<LineOneFinite, LineNoneFinite>>),
      MultiLineString(<<>>),
      Feature(LineString(GoodLine)), Feature(NullValue), Feature(LineString(LineOneFinite)),
      FeatureCollection(<<Feature(NullValue), Feature(LineString(LineWithGap))>>),
      FeatureCollection(<<Feature(PointGeometry(0))>>),
      FeatureCollection(<<>>),
      GeometryCollection(<<PointGeometry(0), LineString(GoodLine)>>),
      GeometryCollection(<<LineString(LineNoneFinite)>>),
      LineString(LineNorthwards), LineString(LineSouthwards), LineString(LineOfNoLength),
      MultiLineString(<<LineOfNoLength, LineNorthwards>>) }

ProximityCoordinates ==
    { <<0, 1>>, <<0, 2>>, <<0, 3>>, <<0, NaN>>, <<Infinity, 0>>, <<0, Undefined>>,
      <<>>, <<0>>, <<0, 1, 2>> }

ProximityTolerances == {Undefined, 0, 30}

\* What a call gave: it threw error, or it returned value
ProximityThrew(error) == [state |-> "threw", error |-> error, value |-> <<>>]
ProximityReturned(value) == [state |-> "returned", error |-> "", value |-> value]
NotCalled == [state |-> "none", error |-> "", value |-> <<>>]

\* computeRouteProximity(route, coordinate, { toleranceKm }) as the caller sees it
computeRouteProximityCall(route, coordinate, toleranceKm) ==
    IF computeRouteProximity(route, coordinate, toleranceKm).error # ""
    THEN ProximityThrew(computeRouteProximity(route, coordinate, toleranceKm).error)
    ELSE ProximityReturned([distanceKm |->
                       computeRouteProximity(route, coordinate, toleranceKm).distanceKm,
                   isWithinTolerance |->
                       computeRouteProximity(route, coordinate, toleranceKm).isWithinTolerance])

\* isCoordinateNearRoute(route, coordinate, toleranceKm)
isCoordinateNearRoute(route, coordinate, toleranceKm) ==
    IF computeRouteProximityCall(route, coordinate, toleranceKm).state = "threw"
    THEN computeRouteProximityCall(route, coordinate, toleranceKm)
    ELSE ProximityReturned(computeRouteProximityCall(route, coordinate, toleranceKm).value.isWithinTolerance)

NewProximity(route, coordinate, toleranceKm) ==
    [route |-> route, coordinate |-> coordinate, toleranceKm |-> toleranceKm,
     called |-> "none", outcome |-> NotCalled]

\* The caller calls computeRouteProximity on its inputs.
ComputeRouteProximity ==
    /\ proximityCall.called = "none"
    /\ proximityCall' = [proximityCall EXCEPT
                        !.called = "computeRouteProximity",
                        !.outcome = computeRouteProximityCall(proximityCall.route,
                                                              proximityCall.coordinate,
                                                              proximityCall.toleranceKm)]
    /\ UNCHANGED <<rlVars, planVars, vrp, lookup, orsClient>>

\* The caller calls isCoordinateNearRoute on its inputs.
IsCoordinateNearRoute ==
    /\ proximityCall.called = "none"
    /\ proximityCall' = [proximityCall EXCEPT
                        !.called = "isCoordinateNearRoute",
                        !.outcome = isCoordinateNearRoute(proximityCall.route,
                                                          proximityCall.coordinate,
                                                          proximityCall.toleranceKm)]
    /\ UNCHANGED <<rlVars, planVars, vrp, lookup, orsClient>>

\* ------------------------------------------------------------------------
\* Specifications
\* ------------------------------------------------------------------------
RLIdle == now = 0 /\ limiter = NewRateLimiter(1, 1, 0) /\ tasks = <<>>

PlanIdle ==
    /\ request = [clients |-> <<>>, truckCapacityKg |-> 0, desiredTourCountHalves |-> 0,
                  depot |-> <<0, 0>>]
    /\ options = DEFAULT_OPTIONS
    /\ pc = "idle" /\ normalizedClients = <<>> /\ matrix = NoMatrix /\ seeds = <<>>
    /\ isoGeometries = <<>> /\ remaining = <<>> /\ tours = <<>> /\ context = NoContext
    /\ globalWarnings = <<>> /\ cursor = [iso |-> 0, seed |-> 0] /\ ors = NoCalls
    /\ result = Pending

VrpIdle ==
    vrp = VrpIdleRun([clients |-> <<>>, truckCapacityKg |-> 0, desiredTourCountHalves |-> 0,
                      depot |-> <<0, 0>>])

LookupIdle ==
    lookup = IdleLookup([town |-> NoText, zip |-> NoText, countryCode |-> NoText,
                         structuredSize |-> Undefined, autocompleteSize |-> Undefined])

NewClient(enabled) == [rateLimiter |-> enabled, calls |-> 0, last |-> NoCall]

ClientIdle == orsClient = NewClient(TRUE)

ProximityIdle == proximityCall = NewProximity(NoGeometry, <<0, 0>>, Undefined)

ToolsIdle == VrpIdle /\ LookupIdle /\ ClientIdle /\ ProximityIdle

\* A planning run: any request and option bag of the model, nothing called yet
Init ==
    /\ request \in Requests
    /\ options \in OptionSets
    /\ pc = "idle" /\ normalizedClients = <<>> /\ matrix = NoMatrix /\ seeds = <<>>
    /\ isoGeometries = <<>> /\ remaining = <<>> /\ tours = <<>> /\ context = NoContext
    /\ globalWarnings = <<>> /\ cursor = [iso |-> 0, seed |-> 0] /\ ors = NoCalls
    /\ result = Pending
    /\ RLIdle
    /\ ToolsIdle

Next ==
    \/ PlanStart
    \/ MatrixResolves
    \/ MatrixRejects
    \/ IsochroneResolves
    \/ IsochroneRejects
    \/ DirectionsResolves
    \/ DirectionsRejects

Spec == Init /\ [][Next]_vars

\* A rate limiter: new RateLimiter({requests, intervalMs}) at time 0
InitRL ==
    /\ now = 0
    /\ \E requests \in CapacityValues, intervalMs \in IntervalValues :
         limiter = NewRateLimiter(requests, intervalMs, 0)
    /\ tasks = <<>>
    /\ PlanIdle
    /\ ToolsIdle

NextRL ==
    \/ RLSchedule
    \/ RLTimerFires
    \/ RLTaskSettles
    \/ RLTick

SpecRL == InitRL /\ [][NextRL]_vars

\* The same limiter in an environment where time advances (Date.now() goes on to the
\* last clock value) and the event loop runs a timer callback that is due
SpecRLFair == InitRL /\ [][NextRL]_vars /\ WF_vars(RLTick) /\ WF_vars(RLTimerFires)

\* A VRP planning run: any request of the model, nothing called yet
InitVRP ==
    /\ vrp \in {VrpIdleRun(req) : req \in VrpRequests}
    /\ RLIdle
    /\ PlanIdle
    /\ LookupIdle
    /\ ClientIdle
    /\ ProximityIdle

NextVRP ==
    \/ VrpStart
    \/ VrpOptimizationResolves
    \/ VrpOptimizationRejects

SpecVRP == InitVRP /\ [][NextVRP]_vars

\* A lookup: any query of the model, nothing requested yet
InitLookup ==
    /\ lookup \in {IdleLookup(query) : query \in LookupQueries}
    /\ RLIdle
    /\ PlanIdle
    /\ VrpIdle
    /\ ClientIdle
    /\ ProximityIdle

NextLookup ==
    \/ LookupStart
    \/ GeocodeResolves
    \/ GeocodeRejects

SpecLookup == InitLookup /\ [][NextLookup]_vars

\* An ORS client: new ORS({ rateLimit }) at time 0, with a limiter of one request per
\* two milliseconds, or with rateLimit.enabled false
InitORS ==
    /\ now = 0
    /\ limiter = NewRateLimiter(1, 2, 0)
    /\ tasks = <<>>
    /\ orsClient \in {NewClient(enabled) : enabled \in BOOLEAN}
    /\ PlanIdle
    /\ VrpIdle
    /\ LookupIdle
    /\ ProximityIdle

NextORS ==
    \/ Directions
    \/ Isochrones
    \/ Matrix
    \/ Snap
    \/ Pois
    \/ ElevationPoint
    \/ ElevationLine
    \/ Optimization
    \/ RLTimerFires
    \/ RLTaskSettles
    \/ RLTick

SpecORS == InitORS /\ [][NextORS]_vars

\* A caller of the route proximity helpers with any inputs of the model
InitProximity ==
    /\ proximityCall \in {NewProximity(route, coordinate, toleranceKm) :
                         route \in ProximityRoutes, coordinate \in ProximityCoordinates,
                         toleranceKm \in ProximityTolerances}
    /\ RLIdle
    /\ PlanIdle
    /\ VrpIdle
    /\ LookupIdle
    /\ ClientIdle

NextProximity ==
    \/ ComputeRouteProximity
    \/ IsCoordinateNearRoute

SpecProximity == InitProximity /\ [][NextProximity]_vars

\* ------------------------------------------------------------------------
\* Properties of a planning run
\* ------------------------------------------------------------------------
\* The run has returned its result
Returned == pc = "done" /\ result.state = "resolved"

\* The run has thrown
Rejected == pc = "rejected" /\ result.state = "rejected"

\* The weights of the stops of a tour, added up
StopWeight(tour) == SeqSum([k \in 1..Len(tour.stops) |-> tour.stops[k].weightKg])

\* The request as the contract calls it invalid: no client, a truck capacity that is not
\* a positive finite number, a desiredTourCount that is not a positive integer, a depot or
\* client coordinate that is not a pair of finite numbers, an order date that is no date.
IsCoordinatePair(c) == Len(c) >= 2 /\ IsFiniteNumber(c[1]) /\ IsFiniteNumber(c[2])
InvalidRequest(req) ==
    \/ Len(req.clients) = 0
    \/ ~IsFiniteNumber(req.truckCapacityKg)
    \/ req.truckCapacityKg <= 0
    \/ req.desiredTourCountHalves % 2 # 0
    \/ req.desiredTourCountHalves <= 0
    \/ ~IsCoordinatePair(req.depot)
    \/ \E i \in 1..Len(req.clients) :
          ~IsCoordinatePair(req.clients[i].coordinate) \/ req.clients[i].orderDate = NaN

\* How many times the input client of position i (matrix index i) is a stop of a tour,
\* and how many times it is in the unassigned list
TimesPlanned(i) ==
    SeqSum([t \in 1..Len(tours) |->
               Cardinality({k \in 1..Len(tours[t].stops) : tours[t].stops[k].matrixIndex = i})])
TimesUnassigned(i) ==
    Cardinality({k \in 1..Len(result.unassigned) : result.unassigned[k].matrixIndex = i})

\* The warnings of the result: the global ones and those of the tours
ResultWarnings ==
    Range(globalWarnings) \cup UNION {Range(tours[t].warnings) : t \in 1..Len(tours)}

\* The degradations a warning tells of.  A warning template names the matrix or none of
\* the three services.
DegradationsOf(warning) ==
    IF warning.text = W_MatrixSize(0).text THEN {"matrix_skipped"}
    ELSE IF warning.text = W_MatrixFailed.text THEN {"matrix_failed"}
    ELSE {}

\* C1: in the result of a run, the weights of the stops of every tour add up to at most
\* truckCapacityKg.
C1_TourWeightWithinCapacity ==
    Returned => \A t \in 1..Len(tours) : StopWeight(tours[t]) <= request.truckCapacityKg

\* C2: in the result of a run, every input client is exactly once in the stops of the
\* tours and the unassigned list taken together, whether ids repeat or not.
C2_EveryClientExactlyOnce ==
    Returned => \A i \in 1..Len(request.clients) : TimesPlanned(i) + TimesUnassigned(i) = 1

\* C3: a run rejects only when its request is invalid; nothing the three services throw
\* or return makes a run with a valid request reject.
C3_ValidRequestNeverRejects ==
    Rejected => InvalidRequest(request)

\* C4: in the result of a run, every degradation of an upstream call (matrix failed or
\* skipped, isochrones failed or disabled, directions failed or skipped) is told by a
\* warning of the result.
C4_EveryDegradationWarned ==
    Returned => \A d \in ors.degraded : \E w \in ResultWarnings : d \in DegradationsOf(w)

\* The coordinates of the request, depot first, as the contract's [depot, ...clients]
RequestLocations(req) ==
    [i \in 0..Len(req.clients) |-> IF i = 0 THEN req.depot ELSE req.clients[i].coordinate]

\* m holds, for every pair of indices of the request's locations, the haversine distance
\* and that distance / averageSpeedKmh * 60
IsHaversineMatrix(m, req, opts) ==
    LET locations == RequestLocations(req)
    IN  /\ DOMAIN m.distancesKm = DOMAIN locations
        /\ DOMAIN m.durationsMin = DOMAIN locations
        /\ \A i, j \in DOMAIN locations :
              /\ m.distancesKm[i][j] = haversineDistanceKm(locations[i], locations[j])
              /\ m.durationsMin[i][j] =
                     (haversineDistanceKm(locations[i], locations[j]) * 60) \div opts.averageSpeedKmh

\* The warning speaks of the haversine fallback
MentionsHaversine(warning) ==
    warning.text \in {W_MatrixSize(0).text, W_MatrixFailed.text, W_Fallback.text,
                      W_MissingDistance.text}

\* (1 + clientCount)^2 exceeds limits.matrixMaxCells, or the default ceiling without it
ExceedsCellCeiling(req, opts) ==
    (1 + Len(req.clients)) * (1 + Len(req.clients)) > matrixMaxCells(opts)

\* The number of input clients of strictly positive weight
PositiveWeightCount(req) ==
    Cardinality({i \in 1..Len(req.clients) : req.clients[i].weightKg > 0})

\* C5: a run on an invalid request issues no matrix, isochrones or directions call, and
\* once planDeliveryTours has been called it has rejected.
C5_InvalidRequestRejectsBeforeAnyCall ==
    InvalidRequest(request) =>
        /\ ors.matrix = 0 /\ ors.isochrones = 0 /\ ors.directions = 0
        /\ pc # "idle" => Rejected

\* C5, its case: the call has rejected a request whose only fault is the order date of
\* its last client, and no service was called.
C5_RejectedOnOrderDate ==
    /\ Rejected
    /\ Len(request.clients) >= 2
    /\ request.clients[Len(request.clients)].orderDate = NaN
    /\ \A i \in 1..(Len(request.clients) - 1) :
          IsCoordinatePair(request.clients[i].coordinate) /\ request.clients[i].orderDate # NaN
    /\ IsCoordinatePair(request.clients[Len(request.clients)].coordinate)
    /\ IsCoordinatePair(request.depot)
    /\ request.truckCapacityKg > 0
    /\ request.desiredTourCountHalves \in {2, 4}
    /\ ors = NoCalls

\* C6: once the matrix call of a run has thrown, the run does not reject (it goes on to
\* produce its tours), its matrix holds the pairwise haversine distances and the
\* durations distance / averageSpeedKmh * 60, and a warning of the matrix, global in the
\* result, mentions the haversine fallback.
C6_MatrixFailureStillPlans ==
    "matrix_failed" \in ors.degraded =>
        /\ ~Rejected
        /\ IsHaversineMatrix(matrix, request, options)
        /\ \E w \in Range(matrix.warnings) : MentionsHaversine(w)
        /\ Returned => \E w \in Range(globalWarnings) : MentionsHaversine(w)

\* C6 without the run's own outcome: the matrix and the warning after a matrix call that
\* threw.
C6_FallbackMatrixIsHaversine ==
    "matrix_failed" \in ors.degraded =>
        /\ IsHaversineMatrix(matrix, request, options)
        /\ \E w \in Range(matrix.warnings) : MentionsHaversine(w)
        /\ Returned => \E w \in Range(globalWarnings) : MentionsHaversine(w)

\* C7: when (1 + clientCount)^2 exceeds the cell ceiling the matrix endpoint is not
\* called; for a valid request the matrix of the run is the haversine one and the warning
\* about the matrix size is among the matrix warnings, and among the global warnings of
\* the result.
C7_OversizeMatrixNeverRequested ==
    ExceedsCellCeiling(request, options) =>
        /\ ors.matrix = 0
        /\ "matrix_failed" \notin ors.degraded
        /\ (pc # "idle" /\ ~InvalidRequest(request)) =>
              /\ IsHaversineMatrix(matrix, request, options)
              /\ W_MatrixSize((1 + Len(request.clients)) * (1 + Len(request.clients)))
                     \in Range(matrix.warnings)
        /\ Returned =>
              W_MatrixSize((1 + Len(request.clients)) * (1 + Len(request.clients)))
                  \in Range(globalWarnings)

\* C7, its case: a run over two clients or more with a ceiling of 8 cells has returned
\* tours without any matrix call.
C7_OversizeRunReturned ==
    /\ Returned
    /\ ExceedsCellCeiling(request, options)
    /\ options.limits.matrixMaxCells = 8
    /\ Len(tours) >= 1
    /\ ors.matrix = 0
    /\ ors.directions >= 1

\* C10: the result has at most desiredTourCount tours, the first stop of every tour is a
\* seed of strictly positive weight, there are no more tours than clients of positive
\* weight, and without any such client there is no tour and every client is unassigned.
C10_AtMostDesiredToursFromPositiveSeeds ==
    Returned =>
        /\ Len(tours) <= desiredTourCount(request)
        /\ \A t \in 1..Len(tours) :
              /\ Len(tours[t].stops) >= 1
              /\ tours[t].stops[1].seed
              /\ tours[t].stops[1].weightKg > 0
        /\ Len(tours) <= PositiveWeightCount(request)
        /\ PositiveWeightCount(request) = 0 =>
              /\ tours = <<>>
              /\ \A i \in 1..Len(request.clients) : TimesUnassigned(i) = 1

\* C10 without its last line: the number of tours and their seeds.
C10_ToursComeFromPositiveSeeds ==
    Returned =>
        /\ Len(tours) <= desiredTourCount(request)
        /\ \A t \in 1..Len(tours) :
              /\ Len(tours[t].stops) >= 1
              /\ tours[t].stops[1].seed
              /\ tours[t].stops[1].weightKg > 0
        /\ Len(tours) <= PositiveWeightCount(request)
        /\ PositiveWeightCount(request) = 0 => tours = <<>>

\* The places of globalWarnings that hold a warning of the given text
WarningsOfText(text) == {k \in 1..Len(globalWarnings) : globalWarnings[k].text = text}

\* The places of result.unassigned that hold a client heavier than the truck can carry
UnassignedTooHeavy ==
    {k \in 1..Len(result.unassigned) :
        result.unassigned[k].weightKg > request.truckCapacityKg}

\* C11: in the result of a run that leaves clients unassigned, the global warnings hold
\* one "exceeds truck capacity" warning for each unassigned client heavier than
\* truckCapacityKg (as many warnings of a name as unassigned too heavy clients of that
\* name) and exactly one summary warning, which gives the number of unassigned clients;
\* in the result of a run that leaves no client unassigned, neither kind is present.
C11_UnassignedWarnings ==
    Returned =>
        IF Len(result.unassigned) > 0
        THEN /\ \A name \in {c.name : c \in ClientCatalog} :
                   Cardinality({k \in WarningsOfText(W_ExceedsCapacity("").text) :
                                   globalWarnings[k].name = name})
                     = Cardinality({k \in UnassignedTooHeavy :
                                       result.unassigned[k].name = name})
             /\ Cardinality(WarningsOfText(W_ExceedsCapacity("").text))
                  = Cardinality(UnassignedTooHeavy)
             /\ Cardinality(WarningsOfText(W_Unassigned(0).text)) = 1
             /\ \A k \in WarningsOfText(W_Unassigned(0).text) :
                   globalWarnings[k].n = Len(result.unassigned)
        ELSE /\ WarningsOfText(W_ExceedsCapacity("").text) = {}
             /\ WarningsOfText(W_Unassigned(0).text) = {}

\* C11, its case: a run returned with a too heavy client and a lighter one unassigned,
\* warned about
C11_HeavyAndLightUnassigned ==
    /\ Returned
    /\ UnassignedTooHeavy # {}
    /\ Cardinality(UnassignedTooHeavy) < Len(result.unassigned)
    /\ WarningsOfText(W_ExceedsCapacity("").text) # {}
    /\ WarningsOfText(W_Unassigned(0).text) # {}

\* The tours of the run: the returned ones, each with what started it
StartedTours == {t \in 1..Len(tours) : Len(tours[t].stops) >= 1}

\* C19: the first stop of every tour is the seed that started the tour, in the tours of
\* the result and in the tour under construction after the Tour Builder and after the
\* Corridor Injector worked on it.
C19_SeedStaysFirst ==
    /\ \A t \in 1..Len(tours) :
          /\ Len(tours[t].stops) >= 1
          /\ tours[t].stops[1].matrixIndex = tours[t].startedBy
          /\ tours[t].stops[1].position = 1
    /\ pc \in {"await_directions", "await_directions_again"} =>
          /\ Len(context.stops) >= 1
          /\ context.stops[1].matrixIndex = context.seed

\* C19, its case: a returned tour whose seed lies farther from the depot than a stop
\* inserted after it, so that the place before the seed would have cost no more
C19_InsertedBehindFartherSeed ==
    /\ Returned
    /\ \E t \in 1..Len(tours) :
          /\ Len(tours[t].stops) >= 2
          /\ tours[t].stops[1].matrixIndex = tours[t].startedBy
          /\ tours[t].stops[2].distanceFromDepotKm < tours[t].stops[1].distanceFromDepotKm

\* C20: the stop sequence the Tour Builder returns (the tour under construction at the
\* first directions call) has at most maxCandidatesPerTour stops, for every cap of at
\* least 1, and the tour-local warning about the cap is recorded only at that count.
C20_BuilderKeepsWithinCap ==
    (pc = "await_directions" /\ options.maxCandidatesPerTour >= 1) =>
        /\ Len(context.stops) <= options.maxCandidatesPerTour
        /\ W_MaxCandidates(options.maxCandidatesPerTour) \in Range(context.warnings)
              => Len(context.stops) = options.maxCandidatesPerTour

\* For the caps of at least 2 the Tour Builder keeps within the cap and records the
\* warning exactly when the count reaches it.
BuilderKeepsWithinCapOfTwoOrMore ==
    (pc = "await_directions" /\ options.maxCandidatesPerTour >= 2) =>
        /\ Len(context.stops) <= options.maxCandidatesPerTour
        /\ W_MaxCandidates(options.maxCandidatesPerTour) \in Range(context.warnings)
              <=> Len(context.stops) = options.maxCandidatesPerTour

\* C21: every tour in the result of a run has at most maxCandidatesPerTour stops: neither
\* the Tour Builder nor the Corridor Injector adds a stop to a tour that has reached the
\* cap.
C21_ToursWithinCap ==
    Returned => \A t \in 1..Len(tours) : Len(tours[t].stops) <= options.maxCandidatesPerTour

\* A returned tour holds more stops than a cap of two or more allows, the warning of
\* the Tour Builder about the cap being among its warnings.
InjectionPassedCap ==
    /\ Returned
    /\ options.maxCandidatesPerTour >= 2
    /\ \E t \in 1..Len(tours) :
          /\ Len(tours[t].stops) > options.maxCandidatesPerTour
          /\ W_MaxCandidates(options.maxCandidatesPerTour) \in Range(tours[t].warnings)

\* The tour under construction keeps within a cap of two or more until the first
\* directions call has returned.
BuiltTourWithinCapBeforeInjection ==
    (pc = "await_directions" /\ options.maxCandidatesPerTour >= 2) =>
        Len(context.stops) <= options.maxCandidatesPerTour

\* The reachability geometry kept for the seed of the tour under construction
\* (undefined when gating is off, the budget was spent before this seed, or its call failed)
SeedGeometry ==
    IF cursor.seed <= Len(isoGeometries) THEN isoGeometries[cursor.seed] ELSE NoGeometry

SeedHasGeometry == SeedGeometry.type # "undefined"

\* The client lies inside the geometry of the seed
InsideSeedGeometry(client) == isPointInsideFeature(SeedGeometry, client.coordinate)

\* The client lies within clusterRadiusKm of the seed by the matrix of the run
WithinClusterRadius(client) ==
    matrix.distancesKm[context.seed][client.matrixIndex] <= options.clusterRadiusKm

\* The distance rule lets the client in
ReachableFromSeed(client) ==
    SeedHasGeometry => (InsideSeedGeometry(client) \/ WithinClusterRadius(client))

\* The clients of the pool the Tour Builder was given that it did not make stops
LeftByBuilder ==
    {v \in Range(remaining) :
        \A k \in 1..Len(context.stops) : context.stops[k].id # normalizedClients[v].id}

BuilderStoppedAtCap == Len(context.stops) >= options.maxCandidatesPerTour

ExcludedByDistanceOnly ==
    /\ pc = "await_directions"
    /\ SeedHasGeometry
    /\ ~BuilderStoppedAtCap
    /\ \E v \in LeftByBuilder :
          /\ normalizedClients[v].weightKg + context.totalWeight <= request.truckCapacityKg
          /\ ~ReachableFromSeed(normalizedClients[v])

\* The builder took a client beyond the cluster radius, the seed having no geometry.
TakenBeyondRadiusWithoutGeometry ==
    /\ pc = "await_directions"
    /\ ~SeedHasGeometry
    /\ \E k \in 2..Len(context.stops) : ~WithinClusterRadius(context.stops[k])

\* The priority of a client for the seed of the tour under construction, as a fraction:
\* its score, times clusterRadiusKm / distance to the seed when that distance is beyond
\* clusterRadiusKm
PriorityNum(v) ==
    IF matrix.distancesKm[context.seed][v] <= options.clusterRadiusKm
    THEN normalizedClients[v].score
    ELSE normalizedClients[v].score * options.clusterRadiusKm
PriorityDen(v) ==
    IF matrix.distancesKm[context.seed][v] <= options.clusterRadiusKm
    THEN 1
    ELSE matrix.distancesKm[context.seed][v]

PriorityAbove(a, b) == PriorityNum(a) * PriorityDen(b) > PriorityNum(b) * PriorityDen(a)
PriorityEqual(a, b) == PriorityNum(a) * PriorityDen(b) = PriorityNum(b) * PriorityDen(a)

\* The distance added by putting client v right after stop number p of the sequence
\* before (matrix indices), the depot following the last stop
AddedDistance(before, v, p) ==
    matrix.distancesKm[before[p]][v]
      + matrix.distancesKm[v][IF p = Len(before) THEN 0 ELSE before[p + 1]]
      - matrix.distancesKm[before[p]][IF p = Len(before) THEN 0 ELSE before[p + 1]]

\* The least distance added over the places after the seed
LeastAddedDistance(before, v) ==
    CHOOSE d \in {AddedDistance(before, v, p) : p \in 1..Len(before)} :
        \A p \in 1..Len(before) : d <= AddedDistance(before, v, p)

\* C23: at each growth step of the Tour Builder the client inserted is an admissible
\* candidate of the highest priority (score times proximity factor), and among the
\* candidates of that priority one of the lowest insertion cost; the stops of the built
\* tour are the seed and the clients so inserted.
C23_HighestPriorityThenLowestCost ==
    pc = "await_directions" =>
        /\ {context.stops[k].matrixIndex : k \in 1..Len(context.stops)}
             = {context.seed} \cup {context.growth[g].chosen : g \in 1..Len(context.growth)}
        /\ \A g \in 1..Len(context.growth) :
              /\ context.growth[g].chosen \in context.growth[g].candidates
              /\ \A c \in context.growth[g].candidates :
                    \/ PriorityAbove(context.growth[g].chosen, c)
                    \/ /\ PriorityEqual(context.growth[g].chosen, c)
                       /\ LeastAddedDistance(context.growth[g].before, context.growth[g].chosen)
                            <= LeastAddedDistance(context.growth[g].before, c)

\* At a growth step the client inserted had the higher priority although another
\* candidate, beyond clusterRadiusKm of the seed, had the higher score.
ProximityFactorDecides ==
    /\ pc = "await_directions"
    /\ \E g \in 1..Len(context.growth) :
          \E c \in context.growth[g].candidates :
              /\ PriorityAbove(context.growth[g].chosen, c)
              /\ normalizedClients[c].score > normalizedClients[context.growth[g].chosen].score

\* C23, its case: at a growth step two candidates had the same priority and the one
\* inserted, although listed after the other, cost strictly less.
C23_TieBrokenByCost ==
    /\ pc = "await_directions"
    /\ \E g \in 1..Len(context.growth) :
          \E c \in context.growth[g].candidates :
              /\ c < context.growth[g].chosen
              /\ PriorityEqual(context.growth[g].chosen, c)
              /\ LeastAddedDistance(context.growth[g].before, context.growth[g].chosen)
                   < LeastAddedDistance(context.growth[g].before, c)

\* At a growth step the client inserted had the higher priority and the higher cost.
PriorityBeatsCost ==
    /\ pc = "await_directions"
    /\ \E g \in 1..Len(context.growth) :
          \E c \in context.growth[g].candidates :
              /\ PriorityAbove(context.growth[g].chosen, c)
              /\ LeastAddedDistance(context.growth[g].before, c)
                   < LeastAddedDistance(context.growth[g].before, context.growth[g].chosen)

\* The sequence before with client v put right after its stop number p
InsertedAfter(before, v, p) ==
    SubSeq(before, 1, p) \o <<v>> \o SubSeq(before, p + 1, Len(before))

\* The insertion recorded by entry e of a tour's history went to a place after the seed
\* of least added distance, and the cost written is that distance floored at 0
PlacedAtLeastCost(e) ==
    \E p \in 1..Len(e.before) :
        /\ e.after = InsertedAfter(e.before, e.chosen, p)
        /\ AddedDistance(e.before, e.chosen, p) = LeastAddedDistance(e.before, e.chosen)
        /\ e.cost = Max(LeastAddedDistance(e.before, e.chosen), 0)

\* The histories of the tour under construction and of the tours pushed
Histories == {context.growth} \cup {tours[t].growth : t \in 1..Len(tours)}

\* C24: every stop inserted by the Tour Builder or the Corridor Injector went to the
\* place, among those after the seed up to the end of the sequence, that minimises the
\* added distance d(prev,c) + d(c,next) - d(prev,next), the depot following the last
\* stop, and the insertionCostKm of its stop is that minimum floored at 0.
C24_InsertedAtLeastAddedDistance ==
    /\ \A h \in Histories : \A g \in 1..Len(h) : PlacedAtLeastCost(h[g])
    /\ \A t \in 1..Len(tours) :
          /\ Len(tours[t].stops) = Len(tours[t].growth) + 1
          /\ \A g \in 1..Len(tours[t].growth) :
                \E k \in 2..Len(tours[t].stops) :
                    /\ tours[t].stops[k].matrixIndex = tours[t].growth[g].chosen
                    /\ tours[t].stops[k].insertionCostKm = tours[t].growth[g].cost

\* Some recorded insertion of a pushed tour satisfies P
SomeInsertion(by, inMiddle, dearerElsewhere, floored) ==
    \E t \in 1..Len(tours) : \E g \in 1..Len(tours[t].growth) :
        LET e == tours[t].growth[g]
        IN  /\ e.by = by
            /\ inMiddle => e.after[Len(e.after)] # e.chosen
            /\ dearerElsewhere =>
                  \E p \in 1..Len(e.before) :
                      AddedDistance(e.before, e.chosen, p)
                          > LeastAddedDistance(e.before, e.chosen)
            /\ floored => LeastAddedDistance(e.before, e.chosen) < 0

\* C24, its case: the Corridor Injector put a client between two stops of a tour, where
\* it added less distance than at another place.
C24_InjectedBetweenStops == SomeInsertion("injector", TRUE, TRUE, FALSE)

\* The Tour Builder put a client between two stops, where it added less distance than
\* at another place.
BuiltBetweenStops == SomeInsertion("builder", TRUE, TRUE, FALSE)

\* An insertion whose least added distance is negative, so that the cost written is 0
NegativeAddedDistance ==
    SomeInsertion("builder", FALSE, FALSE, TRUE) \/ SomeInsertion("injector", FALSE, FALSE, TRUE)

\* min(maxIsoRequests, isochroneMaxLocations), the ceiling of the service being the
\* default when the caller gives none
IsochroneBudget ==
    Min(options.maxIsoRequests,
        IF options.limits.isochroneMaxLocations = Undefined
        THEN DEFAULT_LIMITS.isochronesMaxLocations
        ELSE options.limits.isochroneMaxLocations)

\* The run is past its request for the matrix
SeedsSelected == pc \notin {"idle", "await_matrix"}

\* The calls issued so far are those for the first seeds, one each, in seed order: the
\* answers kept are those of the calls before the one in flight, which is for the seed
\* at cursor.iso
IsochroneCallsInSeedOrder ==
    /\ ors.isochrones <= Len(seeds)
    /\ pc = "await_isochrones" =>
          /\ cursor.iso = ors.isochrones
          /\ Len(isoGeometries) = ors.isochrones - 1
    /\ (SeedsSelected /\ pc # "await_isochrones") => Len(isoGeometries) = ors.isochrones

\* No isochrone call in a run that asks for no range, has no seed or uses the wheelchair
\* profile
NoIsochroneCallWhenOff ==
    (SeedsSelected /\ (options.isoRangeMinutes <= 0 \/ Len(seeds) = 0
                          \/ options.profile = "wheelchair"))
        => ors.isochrones = 0 /\ pc # "await_isochrones"

\* The step in which an isochrone call is answered, by a geometry or by a failure, keeps
\* what the earlier seeds got, records one answer for this seed (nothing when the call
\* failed), and issues the call for the next seed when the budget and the seeds allow one
IsochroneAnswerStep ==
    pc = "await_isochrones" =>
        /\ Len(isoGeometries') = Len(isoGeometries) + 1
        /\ SubSeq(isoGeometries', 1, Len(isoGeometries)) = isoGeometries
        /\ "isochrones_failed" \in ors'.degraded \ ors.degraded
              => isoGeometries'[Len(isoGeometries')] = NoGeometry
        /\ cursor.iso < Min(Len(seeds), IsochroneBudget)
              => /\ pc' = "await_isochrones"
                 /\ cursor'.iso = cursor.iso + 1
                 /\ ors'.isochrones = ors.isochrones + 1

\* C25: a run issues at most min(maxIsoRequests, isochroneMaxLocations) isochrone calls,
\* at most one per seed and in seed order; none when isoRangeMinutes <= 0, when there
\* are no seeds or when the profile is wheelchair; a failed call leaves only its seed
\* without polygon and the calls for the following seeds are still issued.
C25_IsochroneCallsBoundedOrderedIsolated ==
    /\ [](/\ ors.isochrones <= IsochroneBudget
          /\ IsochroneCallsInSeedOrder
          /\ NoIsochroneCallWhenOff)
    /\ [][IsochroneAnswerStep]_vars

\* C25, its case: the call for the first seed failed and the call for the second seed is
\* in flight.
C25_CallAfterFailedCall ==
    /\ pc = "await_isochrones"
    /\ cursor.iso = 2
    /\ isoGeometries = <<NoGeometry>>

\* The budget cut the calls short: two seeds, one call, the tours under way
BudgetBelowSeeds ==
    /\ pc \in {"await_directions", "done"}
    /\ Len(seeds) = 2
    /\ ors.isochrones = 1

\* The ceiling of the service, not maxIsoRequests, is what cut the calls short
CeilingBelowSeeds ==
    /\ BudgetBelowSeeds
    /\ options.maxIsoRequests > 1

\* The first seed got no polygon from its failed call and the second seed got one
OnlyFailedSeedWithoutPolygon ==
    /\ SeedsSelected
    /\ Len(isoGeometries) = 2
    /\ isoGeometries[1] = NoGeometry
    /\ isoGeometries[2] # NoGeometry

\* The tour carries a route geometry
HasRoute(tour) == tour.routeGeoJson.type # "undefined"

\* The Corridor Injector inserted a stop into the tour
InjectedInto(tour) == \E g \in 1..Len(tour.growth) : tour.growth[g].by = "injector"

\* The clients of the pool that the step takes out of it
TakenFromPool == Range(remaining) \ Range(remaining')

\* The ids of the stops of the tours the step pushes
PushedStopIds ==
    UNION {{tours'[t].stops[k].id : k \in 1..Len(tours'[t].stops)} :
              t \in (Len(tours) + 1)..Len(tours')}

\* The step in which the first directions call of a tour is answered pushes the tour and
\* the tour pushed has no route geometry
PushedWithoutRoute ==
    /\ pc = "await_directions"
    /\ Len(tours') > Len(tours)
    /\ ~HasRoute(tours'[Len(tours) + 1])

\* The tour whose first directions call gave no route is pushed as the builder left it,
\* after that one request, and the pool loses nothing but the stops of the tours pushed
PushedAsBuilt ==
    /\ tours'[Len(tours) + 1].stops = context.stops
    /\ tours'[Len(tours) + 1].totalWeightKg = context.totalWeight
    /\ tours'[Len(tours) + 1].asked = 1
    /\ \A v \in TakenFromPool : normalizedClients[v].id \in PushedStopIds

\* The step records the failure of a directions call for the first time in the run
FirstDirectionsFailure ==
    /\ pc = "await_directions"
    /\ "directions_failed" \in ors'.degraded \ ors.degraded

\* C26: for a tour without route geometry, its directions request skipped or failed,
\* corridor injection does nothing: the stops, the total weight and the remaining pool
\* stay as the Tour Builder left them, and no second directions request is made for the
\* tour.
C26_NoRouteNoInjection ==
    /\ [](/\ \A t \in 1..Len(tours) :
                ~HasRoute(tours[t]) =>
                    /\ ~InjectedInto(tours[t])
                    /\ tours[t].asked <= 1
                    /\ tours[t].totalWeightKg = StopWeight(tours[t])
          /\ pc = "await_directions_again" => HasRoute(context))
    /\ [][/\ PushedWithoutRoute => PushedAsBuilt
          /\ FirstDirectionsFailure => PushedWithoutRoute]_vars

\* Some client left unassigned would have fitted tour t by its weight
RoomLeftIn(t) ==
    \E u \in 1..Len(result.unassigned) :
        result.unassigned[u].weightKg + tours[t].totalWeightKg <= request.truckCapacityKg

\* C26, its case: the directions request of a tour failed, the tour was pushed without
\* route after that one request, and a client that would have fitted it by its weight
\* stayed unassigned.
C26_FailedRequestLeftPoolAlone ==
    /\ Returned
    /\ "directions_failed" \in ors.degraded
    /\ \E t \in 1..Len(tours) :
          ~HasRoute(tours[t]) /\ tours[t].asked = 1 /\ RoomLeftIn(t)

\* The directions request of a tour was skipped, the tour was pushed without route, and
\* clients stayed unassigned.
SkippedRequestLeftPoolAlone ==
    /\ Returned
    /\ Len(result.unassigned) > 0
    /\ \E t \in 1..Len(tours) : ~HasRoute(tours[t]) /\ tours[t].asked = 0

\* The remote calls the run has issued so far
CallsIssued == ors.matrix + ors.isochrones + ors.directions

\* The run waits for the answer of a remote call
AwaitingAnswer ==
    pc \in {"await_matrix", "await_isochrones", "await_directions", "await_directions_again"}

\* The place in the seed list of the seed with matrix index v
SeedNumber(v) == CHOOSE k \in 1..Len(seeds) : seeds[k] = v

\* The tours pushed were started by seeds in seed order, all before the seed of the turn
\* the loop is at
ToursInSeedOrder ==
    /\ \A t \in 1..Len(tours) :
          /\ tours[t].startedBy \in Range(seeds)
          /\ SeedNumber(tours[t].startedBy) < cursor.seed
    /\ \A t, u \in 1..Len(tours) :
          t < u => SeedNumber(tours[t].startedBy) < SeedNumber(tours[u].startedBy)

\* The directions requests of the run are those of the tours pushed and of the tour under
\* construction
DirectionsAskedByTours ==
    ors.directions
        = SeqSum([t \in 1..Len(tours) |-> tours[t].asked]) + context.asked

\* What is over when a call is in flight
CallsInOrder ==
    /\ ors.matrix <= 1
    /\ pc = "await_matrix" =>
          /\ ors.matrix = 1 /\ ors.isochrones = 0 /\ ors.directions = 0
          /\ matrix = NoMatrix /\ seeds = <<>>
    /\ pc = "await_isochrones" =>
          /\ matrix # NoMatrix
          /\ ors.directions = 0
          /\ tours = <<>> /\ context = NoContext
    /\ pc \in {"await_directions", "await_directions_again"} =>
          /\ matrix # NoMatrix
          /\ Len(isoGeometries) = ors.isochrones
          /\ cursor.seed \in 1..Len(seeds)
          /\ context.seed = seeds[cursor.seed]
    /\ ~AwaitingAnswer => context.asked = 0 \/ pc = "rejected"

\* A step issues at most one call, and only to wait for its answer; no isochrone call
\* follows a directions call and no matrix call follows any call
OneCallAtATime ==
    /\ CallsIssued' <= CallsIssued + 1
    /\ CallsIssued' = CallsIssued + 1 => AwaitingAnswer'
    /\ CallsIssued' = CallsIssued => ~AwaitingAnswer'
    /\ ors'.matrix > ors.matrix => CallsIssued = 0
    /\ ors'.isochrones > ors.isochrones => ors.directions = 0 /\ pc' = "await_isochrones"
    /\ ors'.directions > ors.directions =>
          pc' \in {"await_directions", "await_directions_again"}

\* C27: the remote calls of a run are strictly sequential and ordered: the matrix call
\* (at most one) is over before any isochrone call, every isochrone call is over before
\* the first directions call, the tour of a seed is built, enriched, injected and pushed
\* before the tour of the next seed is started, and at most one call is in flight.
C27_RemoteCallsSequential ==
    /\ [](CallsInOrder /\ ToursInSeedOrder /\ DirectionsAskedByTours)
    /\ [][OneCallAtATime]_vars

\* C27, its case: after the matrix call and two isochrone calls, the first tour pushed
\* after its directions request, the second directions request of the second tour is in
\* flight.
C27_SecondTourAwaitsDirections ==
    /\ pc = "await_directions_again"
    /\ ors.matrix = 1
    /\ ors.isochrones = 2
    /\ Len(tours) = 1
    /\ tours[1].asked = 1
    /\ ors.directions = 3

\* The waypoint ceiling of the directions service, the default when the caller gives none
WaypointCeiling ==
    IF options.limits.directionsMaxWaypoints = Undefined
    THEN DEFAULT_LIMITS.directionsMaxWaypoints
    ELSE options.limits.directionsMaxWaypoints

\* The number of stops the tour had when the Tour Builder returned it
BuiltStopCount(tour) ==
    1 + Cardinality({g \in 1..Len(tour.growth) : tour.growth[g].by = "builder"})

\* The directions requests made for a tour that is pushed: one when the tour as built is
\* within the ceiling, a second one exactly when stops were injected and the tour is
\* still within the ceiling
AskedAsDue(tour) ==
    /\ tour.asked \in 0..2
    /\ tour.asked >= 1 <=> BuiltStopCount(tour) + 2 <= WaypointCeiling
    /\ tour.asked = 2 <=> (InjectedInto(tour) /\ Len(tour.stops) + 2 <= WaypointCeiling)

\* C28: for each tour the directions service is requested at most twice: once after the
\* tour is built, and a second time if and only if corridor injection inserted a stop
\* and the stop count plus 2 is within the waypoint ceiling; no request is issued for a
\* tour whose stop count plus 2 exceeds the ceiling.
C28_DirectionsAtMostTwicePerTour ==
    /\ \A t \in 1..Len(tours) : AskedAsDue(tours[t])
    /\ pc = "await_directions" =>
          /\ context.asked = 1
          /\ ~InjectedInto(context)
          /\ Len(context.stops) + 2 <= WaypointCeiling
    /\ pc = "await_directions_again" =>
          /\ context.asked = 2
          /\ InjectedInto(context)
          /\ Len(context.stops) + 2 <= WaypointCeiling

\* C28, its case: stops were injected into a tour and took it past the ceiling, so that
\* its route was requested once only.
C28_InjectedPastCeiling ==
    \E t \in 1..Len(tours) :
        /\ InjectedInto(tours[t])
        /\ Len(tours[t].stops) + 2 > WaypointCeiling
        /\ tours[t].asked = 1

\* A tour was pushed after two directions requests
RequestedTwice == \E t \in 1..Len(tours) : tours[t].asked = 2

\* A tour was pushed without any directions request
NeverRequested == \E t \in 1..Len(tours) : tours[t].asked = 0

\* A tour was pushed after one directions request that gave a route, nothing injected
RequestedOnceNothingInjected ==
    \E t \in 1..Len(tours) :
        tours[t].asked = 1 /\ HasRoute(tours[t]) /\ ~InjectedInto(tours[t])

\* The matrix call of the run was answered with a response
MatrixAnswered ==
    /\ ors.matrix = 1
    /\ pc # "await_matrix"
    /\ "matrix_failed" \notin ors.degraded

\* The cells of the matrices of the run
Cells == (DOMAIN RunLocations) \X (DOMAIN RunLocations)

\* The number of times warning w stands in the warnings of the matrix
MatrixWarningCount(w) ==
    Cardinality({k \in 1..Len(matrix.warnings) : matrix.warnings[k] = w})

\* The matrices of the run are the response cell for cell: a number is converted, a
\* missing distance is the haversine distance of the cell, a missing duration is the
\* time the distance of the cell takes at averageSpeedKmh; one warning for each missing
\* cell, and no other warning
NormalizedFrom(response) ==
    /\ \A c \in Cells :
          /\ matrix.distancesKm[c[1]][c[2]]
               = IF IsNumber(response.distances[c[1]][c[2]])
                 THEN response.distances[c[1]][c[2]] \div MetresPerKm
                 ELSE haversineDistanceKm(RunLocations[c[1]], RunLocations[c[2]])
          /\ matrix.durationsMin[c[1]][c[2]]
               = IF IsNumber(response.durations[c[1]][c[2]])
                 THEN response.durations[c[1]][c[2]] \div SEC_PER_MIN
                 ELSE durationFromDistance(matrix.distancesKm[c[1]][c[2]],
                                           options.averageSpeedKmh)
    /\ MatrixWarningCount(W_MissingDistance)
         = Cardinality({c \in Cells : ~IsNumber(response.distances[c[1]][c[2]])})
    /\ MatrixWarningCount(W_MissingDuration)
         = Cardinality({c \in Cells : ~IsNumber(response.durations[c[1]][c[2]])})
    /\ Len(matrix.warnings)
         = MatrixWarningCount(W_MissingDistance) + MatrixWarningCount(W_MissingDuration)

\* C29: on a successful matrix response every cell given as a number is used, metres as
\* kilometres and seconds as minutes, every missing distance or duration cell is replaced
\* by the estimate for that cell with one warning for each, and a complete response
\* gives no warning.
C29_MatrixNormalizedCellByCell ==
    MatrixAnswered =>
        \E response \in MatrixResponses(RunLocations) : NormalizedFrom(response)

\* C29, its case: the response lacked a distance, and the matrix of the run holds a
\* distance that is not the haversine distance of its cell.
C29_HoleFilledOthersKept ==
    /\ MatrixAnswered
    /\ MatrixWarningCount(W_MissingDistance) = 1
    /\ \E c \in Cells :
          matrix.distancesKm[c[1]][c[2]]
              # haversineDistanceKm(RunLocations[c[1]], RunLocations[c[2]])

\* The response was complete and not the haversine matrix: no warning
CompleteResponseNoWarning ==
    /\ MatrixAnswered
    /\ matrix.warnings = <<>>
    /\ \E c \in Cells :
          matrix.distancesKm[c[1]][c[2]]
              # haversineDistanceKm(RunLocations[c[1]], RunLocations[c[2]])

\* The matrices of the run are built
MatrixBuilt == matrix # NoMatrix

\* The run got its matrices without an answer of the matrix service
MatrixFromFallback == MatrixBuilt /\ ~MatrixAnswered

\* C30: the distance and duration matrices of a planning run have a zero diagonal,
\* whether they come from the remote response, from the substitution of missing cells or
\* from the haversine fallback.
C30_ZeroDiagonal ==
    MatrixBuilt =>
        \A i \in DOMAIN RunLocations :
            matrix.distancesKm[i][i] = 0 /\ matrix.durationsMin[i][i] = 0

\* The diagonal is zero in the matrices of the haversine fallback, and in the cells of
\* the diagonal that a response lacked
ZeroDiagonalWhereComputed ==
    MatrixBuilt =>
        /\ MatrixFromFallback =>
              \A i \in DOMAIN RunLocations :
                  matrix.distancesKm[i][i] = 0 /\ matrix.durationsMin[i][i] = 0
        /\ MatrixWarningCount(W_MissingDuration) > 0 =>
              \A i \in DOMAIN RunLocations : matrix.durationsMin[i][i] = 0

\* The matrices of the run are those of the haversine fallback
FallbackMatrixBuilt == MatrixFromFallback /\ W_Fallback \in Range(matrix.warnings)

\* C31: in every tour of the result the position fields of the stops are 1, 2, ..., N in
\* visiting order, also after corridor injection has put stops in the middle of the
\* sequence.
C31_PositionsNumberTheStops ==
    \A t \in 1..Len(tours) :
        \A k \in 1..Len(tours[t].stops) : tours[t].stops[k].position = k

\* C31, its case: the run returned a tour into which the Corridor Injector had put a
\* stop before stops that were already there.
C31_ReturnedAfterInjectionInTheMiddle ==
    /\ Returned
    /\ \E t \in 1..Len(tours) : \E g \in 1..Len(tours[t].growth) :
          /\ tours[t].growth[g].by = "injector"
          /\ tours[t].growth[g].after[Len(tours[t].growth[g].after)]
                # tours[t].growth[g].chosen

\* The stops of the tours of the result, each with its tour and its place in it
AllStops == UNION {{<<t, k>> : k \in 1..Len(tours[t].stops)} : t \in 1..Len(tours)}

\* C33: no client is a stop more than once in the result: not twice within one tour and
\* not in two different tours, whether by its id or by its place in the request.
C33_NoClientTwice ==
    \A a, b \in AllStops :
        a # b =>
            /\ tours[a[1]].stops[a[2]].id # tours[b[1]].stops[b[2]].id
            /\ tours[a[1]].stops[a[2]].matrixIndex # tours[b[1]].stops[b[2]].matrixIndex

\* C33, its case: the run returned, the second seed had been taken into the tour of the
\* first and started no tour of its own, and the route of that tour passed by its own
\* stops when the Corridor Injector looked for clients near it.
C33_SeedAbsorbedByEarlierTour ==
    /\ Returned
    /\ Len(seeds) = 2
    /\ Len(tours) = 1
    /\ HasRoute(tours[1])
    /\ \E k \in 2..Len(tours[1].stops) : tours[1].stops[k].matrixIndex = seeds[2]

\* A run returned a tour built for a seed whose id another client of the request shares
SeedSharesItsId ==
    /\ Returned
    /\ \E t \in 1..Len(tours) : \E v \in 1..Len(normalizedClients) :
          /\ v # tours[t].startedBy
          /\ normalizedClients[v].id = normalizedClients[tours[t].startedBy].id


\* isoRangeMinutes <= 0: buildIsochrones asks for no isochrone, so buildTour gates nothing
GatingDisabled == options.isoRangeMinutes <= 0

\* Every client that passed normalisation weighs more than nothing
AllWeightsPositive ==
    \A k \in 1..Len(normalizedClients) : normalizedClients[k].weightKg > 0

\* No tour's while loop broke at maxCandidatesPerTour
NoTourHitTheCap ==
    \A t \in 1..Len(tours) :
        \A w \in 1..Len(tours[t].warnings) :
            tours[t].warnings[w].text # W_MaxCandidates(options.maxCandidatesPerTour).text

\* Unassigned client u is too heavy for what returned tour t has left
TooHeavyFor(u, t) ==
    result.unassigned[u].weightKg > request.truckCapacityKg - tours[t].totalWeightKg

VrpRequested == vrp.request.desiredTourCountHalves \div 2

\* The result holds a warning that mentions the vehicle limit
VrpLimitWarned == \E k \in 1..Len(vrp.result.warnings) :
                     vrp.result.warnings[k].text = W_VehicleLimit(0, 0).text

\* C12: planDeliveryToursVRP sends min(desiredTourCount, maxVehicles) vehicles to the
\* optimization service, calls the service exactly once (never twice), and its result
\* holds a warning that mentions the limit exactly when desiredTourCount is above
\* maxVehicles.
C12_VehiclesClampedAndWarned ==
    /\ vrp.calls <= 1
    /\ vrp.pc \in {"await_optimization", "done"} =>
          /\ vrp.calls = 1
          /\ Len(vrp.payload.vehicles) = (IF VrpRequested < maxVehicles THEN VrpRequested
                                          ELSE maxVehicles)
    /\ vrp.pc = "done" =>
          /\ vrp.result.state = "resolved"
          /\ VrpLimitWarned <=> VrpRequested > maxVehicles

\* C12, its case: a run returned for a request of more vehicles than the limit
C12_ReturnedAboveLimit ==
    /\ vrp.pc = "done"
    /\ VrpRequested > maxVehicles
    /\ Len(vrp.payload.vehicles) = maxVehicles
    /\ VrpLimitWarned
    /\ vrp.calls = 1

\* The clients (job ids) that are job steps of a route
VrpJobSteps(route) ==
    {jobIdOf(route.steps[k]) : k \in {i \in 1..Len(route.steps) : route.steps[i].type = "job"}}

\* The clients the solver lists as unassigned
VrpListed == {jobIdOf(e) : e \in Range(selectUnassigned(vrp.response))}

\* The clients that are stops of tour number t of the result
VrpStopsOf(t) == {vrp.result.tours[t].stops[k].jobId : k \in 1..Len(vrp.result.tours[t].stops)}

\* The result warns about the client of job id j as unassigned
VrpWarnedUnassigned(j) ==
    \E k \in 1..Len(vrp.result.warnings) :
        /\ vrp.result.warnings[k].name = vrp.clients[j].name
        /\ vrp.result.warnings[k].text \in {W_UnassignedBySolver("").text, W_NoRoute("").text}

\* C13: in the result of planDeliveryToursVRP there is one tour per returned route, a
\* client that is a job step of a route is a stop of the tour of that route, a client
\* the solver lists as unassigned or that is in no route is in the unassigned list and
\* warned about, and every client is a stop of a tour or in the unassigned list.
C13_EveryClientAccountedFor ==
    vrp.pc = "done" =>
        /\ Len(vrp.result.tours) = Len(selectRoutes(vrp.response))
        /\ \A j \in 1..Len(vrp.request.clients) :
              /\ \A t \in 1..Len(selectRoutes(vrp.response)) :
                     j \in VrpJobSteps(selectRoutes(vrp.response)[t]) => j \in VrpStopsOf(t)
              /\ (\/ j \in VrpListed
                  \/ \A t \in 1..Len(selectRoutes(vrp.response)) :
                         j \notin VrpJobSteps(selectRoutes(vrp.response)[t]))
                   => (j \in Range(vrp.result.unassigned) /\ VrpWarnedUnassigned(j))
              /\ \/ \E t \in 1..Len(vrp.result.tours) : j \in VrpStopsOf(t)
                 \/ j \in Range(vrp.result.unassigned)

\* C13, its case: a result with a client on a tour, a client the solver listed as
\* unassigned and a client the answer does not mention, both in the unassigned list
C13_RoutedListedAndForgotten ==
    /\ vrp.pc = "done"
    /\ \E a, b, c \in 1..Len(vrp.request.clients) :
          /\ \E t \in 1..Len(vrp.result.tours) : a \in VrpStopsOf(t)
          /\ b \in VrpListed /\ b \in Range(vrp.result.unassigned)
          /\ c \notin VrpListed /\ c \in Range(vrp.result.unassigned)
          /\ \A t \in 1..Len(vrp.result.tours) : c \notin VrpStopsOf(t)
          /\ W_NoRoute(vrp.clients[c].name) \in Range(vrp.result.warnings)

\* ------------------------------------------------------------------------
\* Properties of a lookup
\* ------------------------------------------------------------------------
\* A query input that is left out, empty or blank
IsBlankInput(value) == value \in {NoText, "", "   "}

\* The places of the point features (Point geometry, finite position) of a response
PointPlaces(response) ==
    IF response.kind # "features" THEN {}
    ELSE {k \in 1..Len(response.features) :
            /\ response.features[k].geometry.type = "Point"
            /\ \A i \in 1..2 : IsFiniteNumber(response.features[k].geometry.coordinates[i])}

\* The position of the first point feature of a response that has one
FirstPointOf(response) ==
    response.features[CHOOSE k \in PointPlaces(response) :
                         \A j \in PointPlaces(response) : k <= j].geometry.coordinates

\* The stage a request belongs to
StageOfRequest(req) ==
    IF req.endpoint = "autocomplete" THEN "autocomplete"
    ELSE IF req.params.locality # NoText THEN "structured_postal_locality"
    ELSE "structured_postal"

StageRank(stage) ==
    CASE stage = "structured_postal_locality" -> 1
      [] stage = "structured_postal" -> 2
      [] stage = "autocomplete" -> 3
      [] OTHER -> 0

\* C14: when zip and town are both given and the first structured request (postal code
\* and locality) yields a point feature, the lookup has returned stage
\* structured_postal_locality with the position of that point and exactly one attempt,
\* and this request is the only one issued, structured or autocomplete.
C14_FirstStageMatchEndsLookup ==
    (/\ ~IsBlankInput(lookup.query.zip) /\ ~IsBlankInput(lookup.query.town)
     /\ Len(lookup.responses) >= 1
     /\ PointPlaces(lookup.responses[1]) # {})
    => /\ lookup.pc = "done"
       /\ lookup.result.state = "resolved"
       /\ lookup.result.stage = "structured_postal_locality"
       /\ lookup.result.coordinates = FirstPointOf(lookup.responses[1])
       /\ Len(lookup.result.attempts) = 1
       /\ Len(lookup.requests) = 1
       /\ lookup.requests[1].endpoint = "structured"
       /\ lookup.requests[1].params.postalcode # NoText
       /\ lookup.requests[1].params.locality # NoText

\* C14, its case: a lookup returned at the first stage, whose answer held a point
\* behind a feature that is none
C14_ReturnedAtFirstStage ==
    /\ lookup.pc = "done"
    /\ ~IsBlankInput(lookup.query.zip) /\ ~IsBlankInput(lookup.query.town)
    /\ Len(lookup.responses) = 1
    /\ PointPlaces(lookup.responses[1]) # {}
    /\ 1 \notin PointPlaces(lookup.responses[1])
    /\ lookup.result.stage = "structured_postal_locality"

\* C15: a lookup whose zip and town are both left out or blank rejects as soon as it
\* is called, and never issues a geocoding request, structured or autocomplete.
C15_BlankQueryRejectsWithoutRequest ==
    (IsBlankInput(lookup.query.zip) /\ IsBlankInput(lookup.query.town)) =>
        /\ lookup.requests = <<>>
        /\ lookup.pc \in {"idle", "rejected"}
        /\ lookup.pc = "rejected" => lookup.result.state = "rejected"

\* C15, its case: a lookup with a blank zip and an empty town has rejected
C15_BlankQueryRejected ==
    /\ lookup.pc = "rejected"
    /\ lookup.result.state = "rejected"
    /\ lookup.query.zip = "   "
    /\ lookup.query.town = ""
    /\ lookup.requests = <<>>

\* C16: the requests of a lookup follow the order structured_postal_locality,
\* structured_postal, autocomplete, each stage at most once; every settled request is
\* recorded as one attempt of its stage, in that order; an autocomplete request comes
\* right after a postal code request that yielded a point and carries that point as its
\* focus; and a lookup that returns after its autocomplete request returns stage
\* autocomplete when that request yielded a point, and else stage structured_postal with
\* the point of the postal code request.
C16_StagesInOrder ==
    /\ \A j, k \in 1..Len(lookup.requests) :
          j < k => StageRank(StageOfRequest(lookup.requests[j]))
                     < StageRank(StageOfRequest(lookup.requests[k]))
    /\ Len(lookup.attempts) = Len(lookup.responses)
    /\ Len(lookup.requests) = Len(lookup.attempts) + (IF lookup.pc \in LookupAwaits THEN 1 ELSE 0)
    /\ \A k \in 1..Len(lookup.attempts) :
          lookup.attempts[k].stage = StageOfRequest(lookup.requests[k])
    /\ \A k \in 1..Len(lookup.requests) :
          lookup.requests[k].endpoint = "autocomplete" =>
              /\ k >= 2
              /\ StageOfRequest(lookup.requests[k - 1]) = "structured_postal"
              /\ PointPlaces(lookup.responses[k - 1]) # {}
              /\ <<lookup.requests[k].params.focusLon, lookup.requests[k].params.focusLat>>
                   = FirstPointOf(lookup.responses[k - 1])
    /\ \A k \in 1..Len(lookup.responses) :
          (lookup.pc = "done" /\ lookup.requests[k].endpoint = "autocomplete") =>
              /\ lookup.result.attempts = lookup.attempts
              /\ IF PointPlaces(lookup.responses[k]) # {}
                 THEN lookup.result.stage = "autocomplete"
                 ELSE /\ lookup.result.stage = "structured_postal"
                      /\ lookup.result.coordinates = FirstPointOf(lookup.responses[k - 1])

\* C16, its case: a lookup that went through the three stages and returned the
\* autocomplete match
C16_ReturnedAfterThreeStages ==
    /\ lookup.pc = "done"
    /\ [k \in 1..Len(lookup.result.attempts) |-> lookup.result.attempts[k].stage]
         = <<"structured_postal_locality", "structured_postal", "autocomplete">>
    /\ lookup.result.stage = "autocomplete"
    /\ lookup.responses[1].kind = "error"

\* A lookup whose autocomplete request found nothing returns the postal code match
AutocompleteFallsBack ==
    /\ lookup.pc = "done"
    /\ Len(lookup.result.attempts) = 3
    /\ lookup.result.stage = "structured_postal"

\* The stage whose request the lookup awaits
StageAwaited ==
    CASE lookup.pc = "await_structured_postal_locality" -> "structured_postal_locality"
      [] lookup.pc = "await_structured_postal" -> "structured_postal"
      [] lookup.pc = "await_autocomplete" -> "autocomplete"
      [] OTHER -> ""

\* The attempts that recorded a point
AttemptsWithPoint == {k \in 1..Len(lookup.attempts) : lookup.attempts[k].coordinates # <<>>}

\* The awaited request fails in this step
RequestFails ==
    /\ lookup.pc \in LookupAwaits
    /\ Len(lookup'.responses) = Len(lookup.responses) + 1
    /\ lookup'.responses[Len(lookup'.responses)].kind = "error"

\* What a request that answered without a point would have led to, from the same state
AfterAnswerWithoutPoint ==
    lookupGoesOn([lookup EXCEPT !.responses =
                      Append(lookup.responses, [kind |-> "no_features", features |-> <<>>])],
                 NoMatch, NoMatch, FALSE)

\* The failed request is recorded as the attempt of its stage, with the error and no
\* point, and the lookup goes where an answer without a point would have taken it: to
\* the request of a later stage or to its return.
FailureRecordedLookupGoesOn ==
    LET a == lookup'.attempts[Len(lookup'.attempts)]
    IN  /\ Len(lookup'.attempts) = Len(lookup.attempts) + 1
        /\ a.stage = StageAwaited
        /\ a.error
        /\ a.coordinates = <<>>
        /\ lookup'.pc \in (LookupAwaits \cup {"done"}) \ {lookup.pc}
        /\ lookup'.pc = AfterAnswerWithoutPoint.pc
        /\ lookup'.requests = AfterAnswerWithoutPoint.requests
        /\ lookup'.result.stage = AfterAnswerWithoutPoint.result.stage
        /\ lookup'.result.coordinates = AfterAnswerWithoutPoint.result.coordinates

\* C38: geocodeTownZipLookup never rejects because a geocoding request failed (it
\* rejects only before any request); a failure at any stage is recorded in the error
\* field of that stage's attempt, and of no other, and the lookup continues as after an
\* answer without a point; it returns stage not_found exactly when no stage produced a
\* point; and whenever the result stage is not not_found the result coordinates are
\* those recorded in an attempt of that stage.
C38_FailedRequestNeverRejects ==
    /\ [](/\ lookup.result.state = "rejected" => lookup.responses = <<>>
          /\ \A k \in 1..Len(lookup.attempts) :
                lookup.attempts[k].error = (lookup.responses[k].kind = "error")
          /\ lookup.result.state = "resolved" =>
                /\ lookup.result.attempts = lookup.attempts
                /\ (lookup.result.stage = "not_found") = (AttemptsWithPoint = {})
                /\ lookup.result.stage # "not_found" =>
                      \E k \in AttemptsWithPoint :
                          /\ lookup.attempts[k].stage = lookup.result.stage
                          /\ lookup.attempts[k].coordinates = lookup.result.coordinates)
    /\ [][RequestFails => FailureRecordedLookupGoesOn]_vars

\* C38, its case: the first request failed, the postal code request yielded a point,
\* the autocomplete request failed, and the lookup returned the postal code match.
C38_ReturnedAfterTwoFailures ==
    /\ lookup.result.state = "resolved"
    /\ Len(lookup.attempts) = 3
    /\ lookup.attempts[1].error /\ ~lookup.attempts[2].error /\ lookup.attempts[3].error
    /\ lookup.result.stage = "structured_postal"
    /\ lookup.result.coordinates = lookup.attempts[2].coordinates

\* Every request of a lookup failed, and it returned not_found
AllRequestsFailed ==
    /\ lookup.result.state = "resolved"
    /\ Len(lookup.attempts) = 2
    /\ \A k \in 1..2 : lookup.attempts[k].error
    /\ lookup.result.stage = "not_found"

\* C39: a lookup given at least one of zip and town, which therefore does not reject,
\* has issued at least one geocoding request when it returns, in particular when only a
\* town is given.
C39_RequestBeforeReturning ==
    (/\ lookup.pc = "done"
     /\ ~(IsBlankInput(lookup.query.zip) /\ IsBlankInput(lookup.query.town)))
    => Len(lookup.requests) >= 1

\* With a zip, the lookup has issued a request when it returns
RequestBeforeReturningWithZip ==
    (lookup.pc = "done" /\ ~IsBlankInput(lookup.query.zip)) => Len(lookup.requests) >= 1

\* A lookup given a town and no zip returned not_found, no request issued
TownOnlyReturnedUnasked ==
    /\ lookup.pc = "done"
    /\ lookup.query.town = " Nice "
    /\ IsBlankInput(lookup.query.zip)
    /\ lookup.requests = <<>>
    /\ lookup.result.stage = "not_found"
    /\ lookup.result.attempts = <<>>

\* ------------------------------------------------------------------------
\* Properties of the ORS client's pre-flight validation
\* ------------------------------------------------------------------------
\* The request of a call leaves out (or leaves empty) a field its endpoint requires.
MissesRequiredField(call) ==
    CASE call.endpoint = "directions" ->
             IsLeftOut(call.request.coordinates) \/ call.request.coordinates < 2
      [] call.endpoint = "isochrones" ->
             \/ IsLeftOut(call.request.locations) \/ call.request.locations = 0
             \/ IsLeftOut(call.request.range) \/ call.request.range = 0
      [] call.endpoint \in {"matrix", "snap"} ->
             IsLeftOut(call.request.locations) \/ call.request.locations = 0
      [] call.endpoint \in {"pois", "elevationPoint", "elevationLine"} ->
             call.request.geometry = "undefined"
      [] call.endpoint = "optimization" ->
             \/ IsLeftOut(call.request.jobs) \/ call.request.jobs = 0
             \/ IsLeftOut(call.request.vehicles) \/ call.request.vehicles = 0
      [] OTHER -> FALSE

\* The straight path of a directions request is longer than directions.maxDistanceKmByGroup
\* allows for the group of its profile.
ExceedsDistanceLimit(call) ==
    /\ call.endpoint = "directions"
    /\ call.profile # NoText
    /\ ~IsLeftOut(call.request.coordinates)
    /\ call.request.pathLengthKm
         > ClientLimits.directions.maxDistanceKmByGroup[getProfileGroup(call.profile)]

\* The request of a call, complete in its required fields, exceeds one of the limits
\* that a validator compares it with.
ExceedsEnforcedLimit(call) ==
    /\ ~MissesRequiredField(call)
    /\ CASE call.endpoint = "directions" ->
                \/ call.request.coordinates > ClientLimits.directions.maxWaypoints
                \/ /\ call.profile # NoText
                   /\ call.request.restrictions
                   /\ call.request.pathLengthKm
                        > ClientLimits.directions.maxRestrictedDistanceKmByGroup[
                              getProfileGroup(call.profile)]
                \/ /\ ~IsLeftOut(call.request.roundTripLengthM)
                   /\ call.request.roundTripLengthM
                        > ClientLimits.directions.maxRoundTripDistanceKm * MetresPerKilometre
                \/ /\ ~IsLeftOut(call.request.targetCount)
                   /\ call.request.targetCount > ClientLimits.directions.maxAlternativeRoutes
                \/ /\ ~IsLeftOut(call.request.avoidAreaKm2)
                   /\ \/ call.request.avoidAreaKm2
                           > ClientLimits.directions.maxAvoidPolygonAreaKm2
                      \/ call.request.avoidExtentKm
                           > ClientLimits.directions.maxAvoidPolygonExtentKm
         [] call.endpoint = "isochrones" ->
                \/ call.request.locations > ClientLimits.isochrones.maxLocations
                \/ call.request.range > ClientLimits.isochrones.maxIntervals
                \/ /\ call.request.rangeType = "distance"
                   /\ call.request.units = "km"
                   /\ call.request.rangeMax > ClientLimits.isochrones.maxRangeDistanceKm
                \/ /\ call.request.rangeType = "distance"
                   /\ call.request.units # "km"
                   /\ call.request.rangeMax
                        > ClientLimits.isochrones.maxRangeDistanceKm * MetresPerKilometre
                \/ /\ call.request.rangeType = "time"
                   /\ call.profile # NoText
                   /\ getProfileGroup(call.profile)
                        \in DOMAIN ClientLimits.isochrones.maxRangeTimeHoursByGroup
                   /\ call.request.rangeMax
                        > ClientLimits.isochrones.maxRangeTimeHoursByGroup[
                              getProfileGroup(call.profile)] * SecondsPerHour
         [] call.endpoint = "matrix" ->
                LET cells == matrixSideCount(call.request.sources, call.request.locations)
                               * matrixSideCount(call.request.destinations,
                                                 call.request.locations)
                IN  \/ cells > ClientLimits.matrix.maxLocationsProduct
                    \/ /\ "all" \in {call.request.sources.kind, call.request.destinations.kind}
                       /\ cells > ClientLimits.matrix.maxDynamicLocations
         [] call.endpoint = "snap" ->
                call.request.locations > ClientLimits.snap.maxLocations
         [] call.endpoint = "pois" ->
                \/ /\ call.request.geometry \in {"bbox", "polygon", "linestring"}
                   /\ \/ call.request.areaKm2 > ClientLimits.pois.maxBboxAreaKm2
                      \/ call.request.bboxAreaKm2 > ClientLimits.pois.maxBboxAreaKm2
                \/ /\ call.request.geometry = "radius"
                   /\ call.request.radiusM
                        > ClientLimits.pois.maxSearchRadiusKm * MetresPerKilometre
                \/ /\ call.request.geometry = "linestring"
                   /\ call.request.lengthKm > ClientLimits.pois.maxLinestringLengthKm
         [] call.endpoint = "elevationLine" ->
                /\ call.request.geometry = "linestring"
                /\ call.request.vertices > ClientLimits.elevation.maxVertices
         [] call.endpoint = "optimization" ->
                \/ call.request.jobs > ClientLimits.optimization.maxRoutes
                \/ call.request.vehicles > ClientLimits.optimization.maxVehicles
         [] OTHER -> FALSE

\* The request of a call exceeds a configured limit.
ExceedsConfiguredLimit(call) == ExceedsEnforcedLimit(call) \/ ExceedsDistanceLimit(call)

\* This step is a call of an endpoint method.
EndpointCalled == orsClient'.calls = orsClient.calls + 1

\* This step's call was rejected, no HTTP request was sent for it and the rate limiter
\* was left as it was.
RejectedUnsent ==
    /\ orsClient'.last.error # ""
    /\ orsClient'.last.task = 0
    /\ ~orsClient'.last.direct
    /\ limiter' = limiter
    /\ tasks' = tasks

\* C17: for every endpoint method with pre-flight validation, a call whose request
\* misses a required field or exceeds a configured limit is rejected, no HTTP request
\* is sent for it and no rate-limiter token is consumed for it.
C17_InvalidRequestRejectsUnsent ==
    [][ (EndpointCalled
          /\ (MissesRequiredField(orsClient'.last) \/ ExceedsConfiguredLimit(orsClient'.last)))
        => RejectedUnsent ]_vars

\* A directions call whose path is longer than maxDistanceKmByGroup, and which breaks no
\* other rule, was handed to the rate limiter.
OverlongDirectionsSent ==
    /\ ExceedsDistanceLimit(orsClient.last)
    /\ orsClient.last.error = ""
    /\ orsClient.last.task > 0

\* A call whose request misses a required field or exceeds a limit that a validator
\* compares it with is rejected, unsent, and the limiter is left alone.
EnforcedLimitsRejectUnsent ==
    [][ (EndpointCalled
          /\ (MissesRequiredField(orsClient'.last) \/ ExceedsEnforcedLimit(orsClient'.last)))
        => RejectedUnsent ]_vars

\* Every call rejected before runRequest sends nothing and leaves the limiter alone.
PreflightRejectionSendsNothing ==
    [][ (EndpointCalled /\ orsClient'.last.error # "") => RejectedUnsent ]_vars

\* A call was rejected for a limit while the only token of the limiter was still there.
LimitRejectedWithTokenLeft ==
    /\ ExceedsEnforcedLimit(orsClient.last)
    /\ orsClient.last.error # ""
    /\ orsClient.rateLimiter
    /\ tasks = <<>>
    /\ limiter.tokens = limiter.capacity

\* ------------------------------------------------------------------------
\* Properties of the route proximity helpers
\* ------------------------------------------------------------------------
RouteIsObject(route) == route.type \notin {"undefined", "null", "string"}

\* The positions of a line that are finite: at least two members, the first two finite
FinitePositions(line) ==
    {i \in 1..Len(line) :
        /\ Len(line[i]) >= 2
        /\ {line[i][1], line[i][2]} \cap {NaN, Infinity, Undefined} = {}}

\* Flattening the route meets a line with at least two finite positions.
RECURSIVE HasUsableLine(_)
HasUsableLine(g) ==
    CASE g.type = "LineString" -> Cardinality(FinitePositions(g.coordinates)) >= 2
      [] g.type = "MultiLineString" ->
             \E l \in 1..Len(g.coordinates) :
                 Cardinality(FinitePositions(g.coordinates[l])) >= 2
      [] g.type = "Feature" -> HasUsableLine(g.geometry)
      [] g.type = "FeatureCollection" ->
             \E f \in 1..Len(g.features) : HasUsableLine(g.features[f])
      [] g.type = "GeometryCollection" ->
             \E k \in 1..Len(g.geometries) : HasUsableLine(g.geometries[k])
      [] OTHER -> FALSE

IsFinitePair(coordinate) ==
    /\ Len(coordinate) = 2
    /\ {coordinate[1], coordinate[2]} \cap {NaN, Infinity, Undefined} = {}

\* The inputs of the call are among those the helpers refuse.
ProximityInputRefused ==
    \/ ~RouteIsObject(proximityCall.route)
    \/ ~HasUsableLine(proximityCall.route)
    \/ ~IsFinitePair(proximityCall.coordinate)

\* C18: computeRouteProximity and isCoordinateNearRoute fail with an error and return
\* nothing when the route is not an object, when flattening it yields no line with at
\* least two finite coordinates, or when the coordinate is not a pair of finite numbers;
\* in every other case computeRouteProximity returns a distance and a containment flag
\* (and isCoordinateNearRoute that flag).
C18_ProximityFailsOnlyOnRefusedInput ==
    proximityCall.called # "none" =>
        IF ProximityInputRefused
        THEN /\ proximityCall.outcome.state = "threw"
             /\ proximityCall.outcome.error # ""
             /\ proximityCall.outcome.value = <<>>
        ELSE /\ proximityCall.outcome.state = "returned"
             /\ IF proximityCall.called = "computeRouteProximity"
                THEN /\ proximityCall.outcome.value.distanceKm \in 0..(Infinity - 1)
                     /\ proximityCall.outcome.value.isWithinTolerance \in BOOLEAN
                ELSE proximityCall.outcome.value \in BOOLEAN

\* computeRouteProximity threw for a route that is an object holding a line of several
\* positions of which fewer than two are finite, the coordinate being a finite pair.
C18_LineOfUnusablePositionsRefused ==
    /\ proximityCall.called = "computeRouteProximity"
    /\ proximityCall.route = LineString(LineOneFinite)
    /\ IsFinitePair(proximityCall.coordinate)
    /\ proximityCall.outcome.state = "threw"

\* isCoordinateNearRoute returned FALSE for a point farther from the route than the
\* tolerance.
NearRouteAnsweredNo ==
    /\ proximityCall.called = "isCoordinateNearRoute"
    /\ proximityCall.outcome.state = "returned"
    /\ proximityCall.outcome.value = FALSE

\* The place of the point along the segment from start to end, in grid steps from start:
\* negative before the start, more than the length of the segment beyond its end
AlongTrackSteps(point, start, end) ==
    IF end[2] >= start[2] THEN point[2] - start[2] ELSE start[2] - point[2]

\* The distance between two points of the meridian, in kilometres
PointDistanceKm(a, b) == KmPerStep * Abs(a[2] - b[2])

\* The distance from a point of the meridian to a segment of it: to the start when the
\* projection falls before the start, to the end when it falls beyond the end, and the
\* cross-track distance, which is 0 on the meridian, otherwise; to the point the segment
\* is when it has no length
SegmentDistanceKm(point, start, end) ==
    IF start = end THEN PointDistanceKm(point, start)
    ELSE IF AlongTrackSteps(point, start, end) < 0 THEN PointDistanceKm(point, start)
    ELSE IF AlongTrackSteps(point, start, end) > Abs(end[2] - start[2])
    THEN PointDistanceKm(point, end)
    ELSE 0

\* The lines of the route the helper was called on, and the distances from the coordinate
\* of the call to each of their segments
ContainedLines == appendLineStrings(proximityCall.route)
SegmentDistances ==
    UNION {{SegmentDistanceKm(proximityCall.coordinate, ContainedLines[l][i],
                              ContainedLines[l][i + 1]) :
               i \in 1..(Len(ContainedLines[l]) - 1)} : l \in 1..Len(ContainedLines)}

\* The tolerance of the call, the default when the caller gives none
EffectiveToleranceKm ==
    IF proximityCall.toleranceKm > 0 THEN proximityCall.toleranceKm ELSE DEFAULT_TOLERANCE_KM

BeforeTheStart ==
    /\ proximityCall.called = "computeRouteProximity"
    /\ proximityCall.route = LineString(LineNorthwards)
    /\ proximityCall.coordinate = <<0, 1>>
    /\ proximityCall.toleranceKm = 30
    /\ proximityCall.outcome.state = "returned"
    /\ proximityCall.outcome.value = [distanceKm |-> KmPerStep, isWithinTolerance |-> TRUE]

\* For a point between the ends of a segment the distance returned is 0 and the point is
\* within the default tolerance.
OnTheSegment ==
    /\ proximityCall.called = "computeRouteProximity"
    /\ proximityCall.route = LineString(LineNorthwards)
    /\ proximityCall.coordinate = <<0, 3>>
    /\ proximityCall.toleranceKm = Undefined
    /\ proximityCall.outcome.state = "returned"
    /\ proximityCall.outcome.value = [distanceKm |-> 0, isWithinTolerance |-> TRUE]

\* Of a segment of no length and a segment farther on, the nearer decides.
NearerOfTwoLines ==
    /\ proximityCall.called = "computeRouteProximity"
    /\ proximityCall.route = MultiLineString(<<LineOfNoLength, LineNorthwards>>)
    /\ proximityCall.coordinate = <<0, 1>>
    /\ proximityCall.outcome.state = "returned"
    /\ proximityCall.outcome.value.distanceKm = KmPerStep

\* The distance to a segment of no length is the distance to its point.
ToASegmentOfNoLength ==
    /\ proximityCall.called = "computeRouteProximity"
    /\ proximityCall.route = LineString(LineOfNoLength)
    /\ proximityCall.coordinate = <<0, 1>>
    /\ proximityCall.outcome.state = "returned"
    /\ proximityCall.outcome.value.distanceKm = 2 * KmPerStep

\* ------------------------------------------------------------------------
\* Properties of the rate limiter
\* ------------------------------------------------------------------------
\* The tasks started at a time of the window [from, from + length - 1]
StartedWithin(from, length) ==
    {i \in 1..Len(tasks) : tasks[i].startedAt >= from /\ tasks[i].startedAt < from + length}

\* C8: in every window of intervalMs milliseconds at most `requests` tasks are started.
C8_AtMostNStartsPerWindow ==
    \A from \in 0..MaxTime :
        Cardinality(StartedWithin(from, limiter.intervalMs)) <= limiter.capacity

\* C9: a task scheduled while no token is available is not started by the call; while it
\* is not started it is in the queue with a timer pending; it is started only once
\* intervalMs has elapsed since the last refill the call saw; and the promise of schedule
\* is pending until the task settles and then carries the task's outcome.
C9_TaskWithoutTokenWaitsForRefill ==
    \A i \in 1..Len(tasks) :
        tasks[i].tokensAtCall = 0 =>
            /\ tasks[i].startedAt # tasks[i].calledAt
            /\ tasks[i].status = "queued" =>
                  /\ tasks[i].startedAt = -1
                  /\ i \in Range(limiter.queue)
                  /\ limiter.timer.set
            /\ tasks[i].status # "queued" =>
                  /\ i \notin Range(limiter.queue)
                  /\ tasks[i].startedAt >= tasks[i].lastRefillAtCall + limiter.intervalMs
                  /\ tasks[i].startedAt > tasks[i].calledAt
            /\ tasks[i].promise = (IF tasks[i].status = "settled" THEN tasks[i].outcome
                                   ELSE "pending")

\* C9, its case: a task scheduled without a token was started after the refill and its
\* promise rejected as the task did.
C9_QueuedTaskSettled ==
    \E i \in 1..Len(tasks) :
        /\ tasks[i].tokensAtCall = 0
        /\ tasks[i].status = "settled"
        /\ tasks[i].outcome = "rejected"
        /\ tasks[i].promise = "rejected"
        /\ tasks[i].startedAt = tasks[i].lastRefillAtCall + limiter.intervalMs

\* The tasks that have been started
StartedTasks == {i \in 1..Len(tasks) : tasks[i].startedAt >= 0}

\* The tokens a handler that runs now has to spend: schedule() and processQueue() both
\* refill before they look at this.tokens
TokensAfterRefill == refillTokens(limiter, now).tokens

\* A step spends as many tokens as it starts tasks: a step that changes the limiter does
\* so counting from the tokens after its refill, and a step that leaves the limiter
\* alone starts nothing.
OneTokenPerStart ==
    Cardinality(StartedTasks') - Cardinality(StartedTasks) =
        (IF limiter' = limiter THEN limiter.tokens ELSE TokensAfterRefill) - limiter'.tokens

\* C35: for a RateLimiter with an integer capacity, after any sequence of schedule calls,
\* timer firings and clock advances the token count is within 0..capacity, and every
\* step consumes exactly one token for each task it starts.
C35_TokensWithinCapacityOnePerStart ==
    /\ [](limiter.tokens \in 0..limiter.capacity)
    /\ [][OneTokenPerStart]_vars

\* C35, its case: with capacity 2 every task of the behaviour was started, one of them
\* out of the queue after a refill, and a token is left.
C35_StartedFromQueueAfterRefill ==
    /\ limiter.capacity = 2
    /\ Cardinality(StartedTasks) = MaxTasks
    /\ \E i \in 1..Len(tasks) : tasks[i].startedAt > tasks[i].calledAt
    /\ limiter.tokens = 1

\* The tasks not started yet, in the order of their schedule() calls
WaitingTasks == SelectSeq([i \in 1..Len(tasks) |-> i], LAMBDA i : tasks[i].startedAt < 0)

\* The tasks started so far are the first ones scheduled, the queue holds the others in
\* the order of their calls (processQueue shifts from its head), and none started at an
\* earlier time than a task scheduled before it.
StartedInCallOrder ==
    /\ StartedTasks = 1..Cardinality(StartedTasks)
    /\ limiter.queue = WaitingTasks
    /\ \A i, j \in StartedTasks : i < j => tasks[i].startedAt <= tasks[j].startedAt

\* A started task is not started again: its start stays what it was, and it never goes
\* back to the queue.
StartedOnce ==
    \A i \in StartedTasks :
        /\ tasks'[i].startedAt = tasks[i].startedAt
        /\ tasks'[i].status # "queued"
        /\ i \notin Range(limiter'.queue)

\* C36: RateLimiter starts tasks in the order in which schedule was called and starts
\* each task exactly once: a task scheduled while earlier tasks are still queued never
\* starts before them, even if a token is available at the time of the call.
C36_StartsInCallOrderExactlyOnce ==
    /\ [](StartedInCallOrder)
    /\ [][StartedOnce]_vars

\* C36, its case: a task whose schedule() call saw a token went to the queue behind an
\* earlier task, and was started after it.
C36_QueuedDespiteToken ==
    \E i, j \in StartedTasks :
        /\ i < j
        /\ tasks[j].tokensAtCall > 0
        /\ tasks[i].startedAt >= tasks[j].calledAt
        /\ tasks[j].startedAt > tasks[i].startedAt

\* Task i has been started
Started(i) == i <= Len(tasks) /\ tasks[i].startedAt >= 0

\* The pending timer is due after the last clock value of the model
DueBeyondLastTime == limiter.timer.set /\ limiter.timer.due > MaxTime

\* C37: every task passed to RateLimiter.schedule is eventually started, given that time
\* advances and due timers fire (as far as the clock of the model goes: a task whose
\* timer is due after the last clock value is left waiting with that timer pending);
\* whenever the queue is non-empty a processing timer is pending; a task that rejects
\* neither blocks nor drops the tasks queued after it, the outcome of a task being no
\* part of what decides a start.
C37_EveryTaskEventuallyStarted ==
    /\ [](Len(limiter.queue) > 0 => limiter.timer.set)
    /\ \A i \in 1..MaxTasks : (Len(tasks) >= i) ~> (Started(i) \/ DueBeyondLastTime)

\* C37, its case: a task that waited in the queue was started and rejected, and a task
\* queued behind it was started by a later firing of the timer.
C37_StartedBehindRejectedTask ==
    \E i, j \in StartedTasks :
        /\ i < j
        /\ tasks[i].startedAt > tasks[i].calledAt
        /\ tasks[i].promise = "rejected"
        /\ tasks[j].calledAt < tasks[i].startedAt
        /\ tasks[j].startedAt > tasks[i].startedAt

=============================================================================
